---- MODULE Spec2Model ----
(***************************************************************************)
(* warp_prism: decoder of the PostgreSQL COPY BINARY format into typed     *)
(* column buffers with null masks (src/warp_prism/_warp_prism.c).          *)
(*                                                                         *)
(* Numbers wider than 31 bits are kept as their base-256 digits, most      *)
(* significant first (the order of the bytes on the wire), so that 32 and  *)
(* 64 bit values are exact.                                                *)
(***************************************************************************)
EXTENDS Integers, Sequences, FiniteSets, TLC

(* ------------------------------------------------------------------ *)
(* bounds of the model                                                *)
(* ------------------------------------------------------------------ *)
\* rows of the enumerated (non-bulk) payloads
MaxRows == 2
\* bytes appended after the end-of-data sentinel
MaxTail == 1
\* the calls of the allocator that are made to fail, one per behaviour
MaxFail == 22
MaxColumns == 48

(* ------------------------------------------------------------------ *)
(* program constants                                                  *)
(* ------------------------------------------------------------------ *)
signature == <<80, 71, 67, 79, 80, 89, 10, 255, 13, 10, 0>>
signature_len == 11
column_buffer_growth_factor == 2
starting_column_buffer_length == 4096
\* 946684800000000 as a 64 bit value
datetime_offset == <<0, 3, 93, 1, 59, 55, 224, 0>>
\* 10957 as a 32 bit value
date_offset == <<0, 0, 42, 205>>
\* NPY_DATETIME_NAT, the minimum int64
NPY_DATETIME_NAT == <<128, 0, 0, 0, 0, 0, 0, 0>>
\* sizeof(PyObject * ) of the 64 bit build
sizeof_pointer == 8
UINT16_MAX == 65535
INT16_MAX == 32767

(* ------------------------------------------------------------------ *)
(* fixed width arithmetic on digit sequences                          *)
(* ------------------------------------------------------------------ *)
Zeros(k) == [i \in 1..k |-> 0]

RECURSIVE AddCarry(_, _, _, _)
AddCarry(a, b, i, carry) ==
    IF i = 0 THEN <<>>
    ELSE LET s == a[i] + b[i] + carry
         IN  Append(AddCarry(a, b, i - 1, s \div 256), s % 256)

\* a + b modulo 256^Len(a): the carry out of the top digit is dropped
AddWrap(a, b) == AddCarry(a, b, Len(a), 0)

\* the signed value of two big-endian bytes (int16_t)
S16(b) == IF b[1] >= 128 THEN (b[1] - 256) * 256 + b[2] ELSE b[1] * 256 + b[2]

\* the signed value of four big-endian bytes (int32_t)
S32(b) ==
    IF b[1] >= 128
    THEN (((b[1] - 256) * 256 + b[2]) * 256 + b[3]) * 256 + b[4]
    ELSE ((b[1] * 256 + b[2]) * 256 + b[3]) * 256 + b[4]

\* the unsigned value of four big-endian bytes, for values below 2^31
U32(b) == ((b[1] * 256 + b[2]) * 256 + b[3]) * 256 + b[4]

\* a value converted to size_t: wrap * 2^64 + off (a negative int32 wraps)
ToSizeT(d) == [wrap |-> IF d < 0 THEN 1 ELSE 0, off |-> d]

(* ------------------------------------------------------------------ *)
(* state                                                              *)
(* ------------------------------------------------------------------ *)
VARIABLES
    \* arguments of raw_to_arrays
    nargs,          \* PyTuple_GET_SIZE(args)
    isTuple,        \* PyTuple_Check(pytypeids)
    ids,            \* the items of pytypeids
    input,          \* the bytes of the buffer: pre ++ row^reps ++ suf
    input_len,      \* view.len
    wire,           \* how the bytes were produced (the frames they encode)
    \* warp_prism_to_arrays
    pc,
    types,          \* types[n]: index into typeids, or Wild
    ptr_outarrays, ptr_outmasks, ptr_types,
    out,            \* the result tuple
    view,           \* the Py_buffer
    result,
    wrap_n,         \* n of the loop that wraps the columns into arrays
    acapsules,      \* acapsules[c]: the capsule that owns outarrays[c - 1]
    mcapsules,      \* mcapsules[c]: the capsule that owns outmasks[c - 1]
    \* warp_prism_read_binary_results
    cursor, flags, extension_area, row_count, allocated_rows, field_count,
    n,              \* the column index of the column loop
    rc, written_rows,
    pyerr,          \* the error the decoder has set: its exception and message
    outarrays, outmasks,
    \* memory
    failAt,         \* which call of the allocator fails (0: none does)
    calls,          \* calls of the allocator so far
    heap,           \* heap[a]: the block at address a
    vals,           \* vals[c]: the slots of column c's buffer, as runs
    masks,          \* masks[c]: the bytes of column c's mask, as runs
    strLive,        \* string objects owned by the slots
    noneRefs,       \* references to None owned by the slots
    \* history
    readHi,         \* one past the highest input index read so far
    typeidsIndexed, \* the indices at which typeids was read
    grows,          \* calls of grow_outarrays
    allocated,      \* allocate_outarrays has returned 0
    errcol,         \* the column at which the column loop failed
    cleanupWrites,  \* byte ranges written by the error label
    ub              \* undefined behaviour has happened

vars == <<nargs, failAt, calls, isTuple, ids, input, input_len, wire, pc, types, ptr_outarrays,
          ptr_outmasks, ptr_types, out, view, result, cursor, flags,
          extension_area, row_count, allocated_rows, field_count, n, rc,
          written_rows, outarrays, outmasks, heap, vals, masks, strLive,
          noneRefs, readHi, typeidsIndexed, grows, allocated, errcol,
          cleanupWrites, ub, pyerr, wrap_n, acapsules, mcapsules>>

(* ------------------------------------------------------------------ *)
(* byte reader                                                        *)
(* ------------------------------------------------------------------ *)
TotalLen(inp) == Len(inp.pre) + inp.reps * Len(inp.row) + Len(inp.suf)

\* input_buffer[i]; an index past the end of the buffer is outside the
\* object (readHi records that it was read), the value delivered is 0
InputByte(i) ==
    LET lp == Len(input.pre)
        lr == Len(input.row)
    IN  IF i < lp THEN input.pre[i + 1]
        ELSE IF i < lp + input.reps * lr THEN input.row[((i - lp) % lr) + 1]
        ELSE IF i < TotalLen(input) THEN input.suf[i - lp - input.reps * lr + 1]
        ELSE 0

Bytes(src, k) == [i \in 1..k |-> InputByte(src + i - 1)]

read8(src) == Bytes(src, 1)
read16(src) == Bytes(src, 2)
read32(src) == Bytes(src, 4)
read64(src) == Bytes(src, 8)

Max(a, b) == IF a > b THEN a ELSE b
Min(a, b) == IF a < b THEN a ELSE b

\* the sum of a size_t cursor and a size_t size is 2^64 or more
add_overflow(a, size) == size.wrap = 1 /\ a + size.off >= 0

\* the product of two size_t is 2^64 or more: the operands of the model
\* are below 2^31, so that their product is below 2^62
mul_overflow(a, b) == FALSE

\* a decoder that takes no header to announce OIDs
have_oids_never(fl) == FALSE

have_oids(fl) == fl[2] % 2 = 1

\* valid_flags that looks at bit 16 alone
valid_flags_bit16(fl) == fl = <<0, 0, 0, 0>> \/ fl[2] % 2 = 1

valid_flags(fl) == fl = <<0, 0, 0, 0>> \/ fl = <<0, 1, 0, 0>>

\* a size_t s exceeds a length m that fits the model's integers
SizeGreater(s, m) == s.wrap = 1 \/ s.off > m

\* assert_can_consume with the bound one byte too far
assert_can_consume_late(size, cur, buffer_len) ==
    IF add_overflow(cur, size) THEN TRUE
    ELSE SizeGreater([wrap |-> size.wrap, off |-> cur + size.off], buffer_len + 1)

\* TRUE when the size bytes at cursor cannot be consumed
assert_can_consume(size, cur, buffer_len) ==
    IF add_overflow(cur, size) THEN TRUE
    ELSE LET new_cursor == [wrap |-> size.wrap, off |-> cur + size.off]
         IN  SizeGreater(new_cursor, buffer_len)

\* consumeN: the value read at the cursor and the cursor after it
consume16(cur) == [val |-> read16(cur), cursor |-> cur + 2, read |-> cur + 2]
consume32(cur) == [val |-> read32(cur), cursor |-> cur + 4, read |-> cur + 4]

\* checked_consumeN: err, or the value with the advanced cursor
checked_consume16(cur, buffer_len) ==
    IF assert_can_consume(ToSizeT(2), cur, buffer_len)
    THEN [err |-> TRUE, val |-> <<>>, cursor |-> cur, read |-> 0]
    ELSE [err |-> FALSE] @@ consume16(cur)

checked_consume32(cur, buffer_len) ==
    IF assert_can_consume(ToSizeT(4), cur, buffer_len)
    THEN [err |-> TRUE, val |-> <<>>, cursor |-> cur, read |-> 0]
    ELSE [err |-> FALSE] @@ consume32(cur)

(* ------------------------------------------------------------------ *)
(* slots of the column buffers                                        *)
(* ------------------------------------------------------------------ *)
\* bytes of a fixed width value, or of a pointer that is NULL
Raw(digits) == [tag |-> "raw", v |-> digits]
\* a pointer to a string object the slot owns
StrRef(bytes) == [tag |-> "str", v |-> bytes]
\* a pointer to None, with a reference the slot owns
NoneRef == [tag |-> "none", v |-> <<>>]
\* bytes never written
Uninit == [tag |-> "uninit", v |-> <<>>]
\* bytes of which the error label zeroed a part
Torn == [tag |-> "torn", v |-> <<>>]

\* the slots of a column buffer (and the bytes of a mask buffer), first row
\* first, kept as runs of equal slots: <<[s |-> slot, k |-> how many], ...>>
RECURSIVE ColLen(_)
ColLen(col) ==
    IF col = <<>> THEN 0
    ELSE col[Len(col)].k + ColLen(SubSeq(col, 1, Len(col) - 1))

\* slot i (from 1) of a column; a slot never written is Uninit
RECURSIVE ColAt(_, _)
ColAt(col, i) ==
    IF col = <<>> THEN Uninit
    ELSE IF i <= col[1].k THEN col[1].s
    ELSE ColAt(Tail(col), i - col[1].k)

\* the first m slots of a column, and the slots after them
RECURSIVE ColTake(_, _)
ColTake(col, m) ==
    IF m <= 0 THEN <<>>
    ELSE IF col = <<>> THEN <<[s |-> Uninit, k |-> m]>>
    ELSE IF col[1].k >= m THEN <<[s |-> col[1].s, k |-> m]>>
    ELSE <<col[1]>> \o ColTake(Tail(col), m - col[1].k)

RECURSIVE ColDrop(_, _)
ColDrop(col, m) ==
    IF col = <<>> \/ m <= 0 THEN col
    ELSE IF col[1].k > m THEN <<[s |-> col[1].s, k |-> col[1].k - m]>> \o Tail(col)
    ELSE ColDrop(Tail(col), m - col[1].k)

\* runs a followed by runs b, with equal neighbours made one run
RECURSIVE ColJoin(_, _)
ColJoin(a, b) ==
    IF b = <<>> THEN a
    ELSE IF a # <<>> /\ a[Len(a)].s = b[1].s
    THEN ColJoin([a EXCEPT ![Len(a)].k = @ + b[1].k], Tail(b))
    ELSE ColJoin(Append(a, b[1]), Tail(b))

\* what Py_XDECREF finds in a slot: a string, None, NULL, or bytes that
\* are no pointer to an object ("wild")
Pointee(x) ==
    IF x.tag = "str" THEN "str"
    ELSE IF x.tag = "none" THEN "none"
    ELSE IF x.tag = "raw" /\ x.v = Zeros(Len(x.v)) THEN "null"
    ELSE "wild"

\* how many of the first rowcount slots of a column hold such a pointer
RECURSIVE ColCount(_, _, _)
ColCount(col, rowcount, pointee) ==
    IF col = <<>> \/ rowcount <= 0 THEN 0
    ELSE (IF Pointee(col[1].s) = pointee THEN Min(col[1].k, rowcount) ELSE 0)
         + ColCount(Tail(col), rowcount - col[1].k, pointee)


(* ------------------------------------------------------------------ *)
(* parsers: the slot written and the input bytes read                 *)
(* ------------------------------------------------------------------ *)
ParseError == [err |-> TRUE, slot |-> Uninit, read |-> 0]
Parsed(slot, k) == [err |-> FALSE, slot |-> slot, read |-> k]

\* parse_int16 without its test of the length
parse_int16_unchecked(src, len) == Parsed(Raw(read16(src)), 2)

parse_int16(src, len) ==
    IF len # 2 THEN ParseError ELSE Parsed(Raw(read16(src)), 2)

parse_int32(src, len) ==
    IF len # 4 THEN ParseError ELSE Parsed(Raw(read32(src)), 4)

parse_int64(src, len) ==
    IF len # 8 THEN ParseError ELSE Parsed(Raw(read64(src)), 8)

parse_datetime(src, len) ==
    IF len # 8 THEN ParseError
    ELSE Parsed(Raw(AddWrap(read64(src), datetime_offset)), 8)

\* the sum is a uint32_t (read32 is unsigned), widened to 64 bits by write64
parse_date(src, len) ==
    IF len # 4 THEN ParseError
    ELSE Parsed(Raw(Zeros(4) \o AddWrap(read32(src), date_offset)), 4)

parse_float32(src, len) ==
    IF len # 4 THEN ParseError ELSE Parsed(Raw(read32(src)), 4)

parse_float64(src, len) ==
    IF len # 8 THEN ParseError ELSE Parsed(Raw(read64(src)), 8)

parse_bool(src, len) ==
    IF len # 1 THEN ParseError ELSE Parsed(Raw(read8(src)), 1)

\* the bytes from position i on are well formed UTF-8
RECURSIVE ValidUTF8(_, _)
ValidUTF8(b, i) ==
    LET Cont(j) == j <= Len(b) /\ b[j] >= 128 /\ b[j] <= 191
    IN  IF i > Len(b) THEN TRUE
        ELSE IF b[i] < 128 THEN ValidUTF8(b, i + 1)
        ELSE IF b[i] >= 194 /\ b[i] <= 223
             THEN Cont(i + 1) /\ ValidUTF8(b, i + 2)
        ELSE IF b[i] >= 224 /\ b[i] <= 239
             THEN Cont(i + 1) /\ Cont(i + 2) /\ ValidUTF8(b, i + 3)
        ELSE IF b[i] >= 240 /\ b[i] <= 244
             THEN Cont(i + 1) /\ Cont(i + 2) /\ Cont(i + 3)
                  /\ ValidUTF8(b, i + 4)
        ELSE FALSE

\* PyUnicode_FromStringAndSize fails on bytes that are not UTF-8 and when
\* memory is exhausted (nomem); it looks at len bytes at most
parse_text(src, len, nomem) ==
    IF nomem \/ ~ValidUTF8(Bytes(src, len), 1)
    THEN [err |-> TRUE, slot |-> Uninit, read |-> len]
    ELSE Parsed(StrRef(Bytes(src, len)), len)

(* ------------------------------------------------------------------ *)
(* null writers                                                       *)
(* ------------------------------------------------------------------ *)
simple_write_null(size) == [err |-> FALSE, slot |-> Raw(Zeros(size))]

\* datetime_write_null that zeroes the slot as simple_write_null does
datetime_write_null_zero(size) ==
    IF size # 8 THEN [err |-> TRUE, slot |-> Uninit]
    ELSE [err |-> FALSE, slot |-> Raw(Zeros(size))]

datetime_write_null(size) ==
    IF size # 8 THEN [err |-> TRUE, slot |-> Uninit]
    ELSE [err |-> FALSE, slot |-> Raw(NPY_DATETIME_NAT)]

object_write_null(size) ==
    IF size # sizeof_pointer THEN [err |-> TRUE, slot |-> Uninit]
    ELSE [err |-> FALSE, slot |-> NoneRef]

(* ------------------------------------------------------------------ *)
(* the type descriptors                                               *)
(* ------------------------------------------------------------------ *)
Descr(name, p, f, w, sz) ==
    [dtype_name |-> name, parse |-> p, free |-> f, write_null |-> w, size |-> sz]

int16_type == Descr("int16", "parse_int16", "simple_free", "simple_write_null", 2)
int32_type == Descr("int32", "parse_int32", "simple_free", "simple_write_null", 4)
int64_type == Descr("int64", "parse_int64", "simple_free", "simple_write_null", 8)
float32_type ==
    Descr("float32", "parse_float32", "simple_free", "simple_write_null", 4)
float64_type ==
    Descr("float64", "parse_float64", "simple_free", "simple_write_null", 8)
bool_type == Descr("bool", "parse_bool", "simple_free", "simple_write_null", 1)
string_type ==
    Descr("object", "parse_text", "free_object", "object_write_null",
          sizeof_pointer)
datetime_type ==
    Descr("datetime64[us]", "parse_datetime", "simple_free",
          "datetime_write_null", 8)
date_type ==
    Descr("datetime64[D]", "parse_date", "simple_free", "datetime_write_null", 8)

\* typeids[i] of the source is typeids[i + 1]
typeids == <<int16_type, int32_type, int64_type, float32_type, float64_type,
             bool_type, string_type, datetime_type, date_type>>

max_typeid == Len(typeids)

\* column_type->parse(column_buffer, &input_buffer[src], len)
CallParse(t, src, len, nomem) ==
    CASE t.parse = "parse_int16" -> parse_int16(src, len)
      [] t.parse = "parse_int32" -> parse_int32(src, len)
      [] t.parse = "parse_int64" -> parse_int64(src, len)
      [] t.parse = "parse_float32" -> parse_float32(src, len)
      [] t.parse = "parse_float64" -> parse_float64(src, len)
      [] t.parse = "parse_bool" -> parse_bool(src, len)
      [] t.parse = "parse_text" -> parse_text(src, len, nomem)
      [] t.parse = "parse_datetime" -> parse_datetime(src, len)
      [] t.parse = "parse_date" -> parse_date(src, len)

\* column_type->write_null(column_buffer, size)
CallWriteNull(t, size) ==
    CASE t.write_null = "simple_write_null" -> simple_write_null(size)
      [] t.write_null = "datetime_write_null" -> datetime_write_null(size)
      [] t.write_null = "object_write_null" -> object_write_null(size)

(* ------------------------------------------------------------------ *)
(* memory                                                             *)
(* ------------------------------------------------------------------ *)
NULL == 0
\* the value of a pointer variable that was never assigned
Indeterminate == -1
\* types[n] read from outside the typeids table
Wild == -1

\* the address PyMem_Malloc returns and the heap after it
NextAddr(h) == Len(h) + 1
PyMem_Malloc(h, kind, size) ==
    Append(h, [kind |-> kind, size |-> size, live |-> TRUE, frees |-> 0])

\* PyMem_Free(a) is defined for NULL and for the address of a live block
BadFree(h, a) == a # NULL /\ (a = Indeterminate \/ ~h[a].live)
PyMem_Free(h, a) ==
    IF a = NULL \/ a = Indeterminate THEN h
    ELSE [h EXCEPT ![a].live = FALSE, ![a].frees = @ + 1]

\* PyMem_Realloc(a, size) when it succeeds: the block moves to a new address
PyMem_Realloc(h, a, size) ==
    Append([h EXCEPT ![a].live = FALSE],
           [kind |-> h[a].kind, size |-> size, live |-> TRUE, frees |-> 0])

\* the memory state the cleanup functions work on
Mem == [heap |-> heap, strLive |-> strLive, noneRefs |-> noneRefs, ub |-> ub]


\* simple_free(colbuffer, rowcount)
simple_free(m, buf) ==
    [m EXCEPT !.heap = PyMem_Free(m.heap, buf),
              !.ub = m.ub \/ BadFree(m.heap, buf)]

\* free_object(colbuffer, rowcount): Py_XDECREF of the first rowcount slots
\* (col: the slots of the buffer), then the buffer is freed
free_object(m, buf, col, rowcount) ==
    LET strs == ColCount(col, rowcount, "str")
        nones == ColCount(col, rowcount, "none")
        wild == rowcount > ColLen(col) \/ ColCount(col, rowcount, "wild") > 0
    IN  [heap |-> PyMem_Free(m.heap, buf),
         strLive |-> m.strLive - strs,
         noneRefs |-> m.noneRefs - nones,
         ub |-> m.ub \/ wild \/ BadFree(m.heap, buf)]

\* column_types[c]->free(outarrays[c], rowcount)
CallFree(m, t, buf, col, rowcount) ==
    IF t.free = "free_object" THEN free_object(m, buf, col, rowcount)
    ELSE simple_free(m, buf)

\* free_outarrays(ncolumns, rowcount, column_types, outarrays, outmasks),
\* columns 0 .. ncolumns - 1 in turn (tys, arrs, msks, cols are 1-based)
RECURSIVE free_outarrays(_, _, _, _, _, _, _)
free_outarrays(m, ncolumns, rowcount, tys, arrs, msks, cols) ==
    IF ncolumns <= 0 THEN m
    ELSE LET before == free_outarrays(m, ncolumns - 1, rowcount, tys, arrs,
                                      msks, cols)
             c == ncolumns
             freed == CallFree(before, typeids[tys[c] + 1], arrs[c], cols[c],
                               rowcount)
         IN  [freed EXCEPT !.heap = PyMem_Free(freed.heap, msks[c]),
                           !.ub = freed.ub \/ BadFree(freed.heap, msks[c])]

(* ------------------------------------------------------------------ *)
(* the wire format, as PostgreSQL writes it                           *)
(* ------------------------------------------------------------------ *)
EncU32(u) == <<u \div 16777216, (u \div 65536) % 256, (u \div 256) % 256, u % 256>>
Enc32(v) == IF v < 0 THEN [i \in 1..4 |-> 255 - EncU32(-(v + 1))[i]] ELSE EncU32(v)
Enc16(v) == LET u == IF v < 0 THEN v + 65536 ELSE v IN <<u \div 256, u % 256>>

RECURSIVE Concat(_)
Concat(ss) == IF ss = <<>> THEN <<>> ELSE Head(ss) \o Concat(Tail(ss))

\* a field: its length word and its value bytes
Field(len, data) == [len |-> len, data |-> data]
NullField == Field(-1, <<>>)
Value(data) == Field(Len(data), data)
EncField(f) == Enc32(f.len) \o f.data

\* a row: its field count, its OID word when the header has bit 16, its fields
Frame(fc, oid, fields) == [fc |-> fc, oid |-> oid, fields |-> fields]
EncFrame(fr) ==
    Enc16(fr.fc) \o fr.oid \o Concat([i \in 1..Len(fr.fields) |-> EncField(fr.fields[i])])
EncFrames(frs) == Concat([i \in 1..Len(frs) |-> EncFrame(frs[i])])

Header(sig, fl, ext) == sig \o fl \o ext
EndOfData == <<255, 255>>
NoFlags == <<0, 0, 0, 0>>
WithOids == <<0, 1, 0, 0>>
OidOf(fl) == IF fl = WithOids THEN <<0, 0, 64, 7>> ELSE <<>>

(* ------------------------------------------------------------------ *)
(* the calls the model explores                                       *)
(* ------------------------------------------------------------------ *)
\* the type-id tuples with which payloads are enumerated
TypeTuples ==
    {<<>>, <<0>>, <<1>>, <<2>>, <<3>>, <<4>>, <<5>>, <<6>>, <<7>>, <<8>>,
     <<0, 6>>, <<6, 5>>, <<1, 7>>}

\* on-wire values of a column of type t: the zero value and another one
WireValues(t) ==
    CASE t = 0 -> {<<0, 0>>, <<1, 2>>}
      [] t = 1 -> {Zeros(4), <<0, 0, 0, 42>>}
      [] t = 2 -> {Zeros(8), <<0, 0, 0, 0, 0, 0, 0, 42>>}
      [] t = 3 -> {Zeros(4), <<63, 128, 0, 0>>}
      [] t = 4 -> {Zeros(8), <<63, 240, 0, 0, 0, 0, 0, 0>>}
      [] t = 5 -> {<<0>>, <<1>>}
      [] t = 6 -> {<<>>, <<97>>}
      [] t = 7 -> {Zeros(8), <<0, 0, 0, 0, 0, 0, 32, 1>>}
      \* 2000-01-01, the day after it, and 1969-12-31 (-10958)
      [] t = 8 -> {Zeros(4), <<0, 0, 0, 1>>, <<255, 255, 213, 50>>}

GoodFields(t) == {NullField} \cup {Value(d) : d \in WireValues(t)}

\* fields the decoder must refuse: a length below -1, a length that is not
\* the width of the type, text that is not UTF-8
BadFields(t) ==
    {Field(-2, <<>>)} \cup
    (IF t = 6 THEN {Value(<<255>>)}
     ELSE {Field(0, <<>>), Value(Zeros(IF t = 8 THEN 8 ELSE typeids[t + 1].size + 1))})

\* the sequences of fields of the first k columns of ts
RECURSIVE FieldSeqs(_, _)
FieldSeqs(ts, k) ==
    IF k = 0 THEN {<<>>}
    ELSE {Append(p, f) : p \in FieldSeqs(ts, k - 1), f \in GoodFields(ts[k])}

GoodFrames(ts, fl) == {Frame(Len(ts), OidOf(fl), fs) : fs \in FieldSeqs(ts, Len(ts))}

\* the sequences of up to r well formed rows: equal rows, the last of which
\* may differ
RowsUpTo(ts, fl, r) ==
    {<<>>} \cup
    {[i \in 1..k |-> IF i < k THEN a ELSE b] :
        a \in GoodFrames(ts, fl), b \in GoodFrames(ts, fl), k \in 1..r}

\* rows that start well and break off at a field the decoder must refuse,
\* or that announce a field count that is not the number of columns
BadFrames(ts, fl) ==
    UNION {{Frame(Len(ts), OidOf(fl), Append(p, f)) :
               p \in FieldSeqs(ts, k - 1), f \in BadFields(ts[k])} :
           k \in 1..Len(ts)}
    \cup {Frame(fc, OidOf(fl), <<>>) : fc \in {Len(ts) + 1, -2}}

Tails == {[i \in 1..k |-> 7] : k \in 0..MaxTail}

NoFrame == Frame(0, <<>>, <<>>)
Wire(kind, frames, bulk, reps) ==
    [kind |-> kind, frames |-> frames, bulk |-> bulk, reps |-> reps]
SmallInput(bytes) == [pre |-> bytes, row |-> <<>>, reps |-> 0, suf |-> <<>>]

Call(ts, inp, w, f) ==
    [nargs |-> 2, isTuple |-> TRUE, ids |-> ts, input |-> inp, wire |-> w,
     failAt |-> f]

GoodHeader(fl) == Header(signature, fl, Zeros(4))

HeaderFlags == {NoFlags, WithOids}

\* complete payloads, with and without bytes after the end-of-data sentinel
ValidCalls(ts) ==
    UNION {{Call(ts, SmallInput(GoodHeader(fl) \o EncFrames(rows) \o EndOfData \o tail),
                 Wire("valid", rows, NoFrame, 0), 0) :
               rows \in RowsUpTo(ts, fl, MaxRows), tail \in Tails} :
           fl \in HeaderFlags}

\* every strict prefix of a complete payload
TruncatedCalls(ts) ==
    UNION {UNION {LET p == GoodHeader(fl) \o EncFrames(rows) \o EndOfData
                  IN  {Call(ts, SmallInput(SubSeq(p, 1, len)),
                            Wire("truncated", <<>>, NoFrame, 0), 0) :
                          len \in 0..(Len(p) - 1)} :
                  rows \in RowsUpTo(ts, fl, MaxRows)} :
           fl \in HeaderFlags}

\* well formed rows followed by a row the decoder must refuse
MalformedCalls(ts) ==
    UNION {{Call(ts, SmallInput(GoodHeader(fl) \o EncFrames(Append(rows, bad))
                                \o EndOfData),
                 Wire("malformed", rows, NoFrame, 0), 0) :
               rows \in RowsUpTo(ts, fl, MaxRows - 1), bad \in BadFrames(ts, fl)} :
           fl \in HeaderFlags}

\* one int32 row, the body of the calls that vary something else
OneRow(fl) == EncFrame(Frame(1, OidOf(fl), <<Value(<<0, 0, 0, 42>>)>>)) \o EndOfData

\* a signature with one bit flipped, flags that are not allowed, a header
\* extension area that is not empty
HeaderCalls ==
    {Call(<<1>>, SmallInput(Header(sig, NoFlags, Zeros(4)) \o OneRow(NoFlags)),
          Wire("badheader", <<>>, NoFrame, 0), 0) :
        sig \in {[signature EXCEPT ![1] = 81], [signature EXCEPT ![8] = 254],
                 [signature EXCEPT ![11] = 1]}}
    \cup
    {Call(<<1>>, SmallInput(Header(signature, fl, Zeros(4)) \o OneRow(fl)),
          Wire("badheader", <<>>, NoFrame, 0), 0) :
        fl \in {<<0, 0, 0, 1>>, <<0, 2, 0, 0>>, <<0, 1, 0, 1>>, <<0, 3, 0, 0>>,
                <<128, 0, 0, 0>>, <<1, 1, 0, 0>>}}
    \cup
    {Call(<<1>>, SmallInput(Header(signature, NoFlags, ext) \o rest),
          Wire("badheader", <<>>, NoFrame, 0), 0) :
        ext \in {<<0, 0, 0, 1>>, <<0, 0, 1, 0>>},
        rest \in {<<>>, <<9>> \o OneRow(NoFlags)}}

\* a payload of one row of one-byte values for a tuple of k types
ByteFrame(k) == Frame(k, <<>>, [i \in 1..k |-> Value(<<1>>)])
ByteRows(k) == GoodHeader(NoFlags) \o EncFrame(ByteFrame(k)) \o EndOfData
ByteCall(ts) ==
    Call(ts, SmallInput(ByteRows(Len(ts))),
         Wire("valid", <<ByteFrame(Len(ts))>>, NoFrame, 0), 0)

\* calls whose arguments the entry point must refuse, or accepts by mistake
ArgumentCalls ==
    {[ByteCall(<<5>>) EXCEPT !.nargs = 1],
     [ByteCall(<<5>>) EXCEPT !.isTuple = FALSE],
     Call([i \in 1..(UINT16_MAX + 1) |-> 5], SmallInput(ByteRows(0)),
          Wire("valid", <<ByteFrame(0)>>, NoFrame, 0), 0)}
    \cup
    {ByteCall(ts) :
        ts \in {<<-1>>, <<9>>, <<10>>, <<12>>, <<5, 9>>, <<9, 5>>, <<5, 10>>,
                <<10, 5>>, <<5, -1>>}}

\* calls during which one call of the allocator fails
FailingCalls ==
    {Call(<<6, 1>>,
          SmallInput(GoodHeader(NoFlags)
                     \o EncFrame(Frame(2, <<>>, <<Value(<<97>>), Value(<<0, 0, 0, 42>>)>>))
                     \o EndOfData),
          Wire("valid", <<Frame(2, <<>>, <<Value(<<97>>), Value(<<0, 0, 0, 42>>)>>)>>,
               NoFrame, 0), f) :
        f \in 1..MaxFail}

\* payloads of many equal rows: as many as the starting capacity, one more,
\* and one more than twice as many
BulkInput(rows, fr, reps, suf) ==
    [pre |-> GoodHeader(NoFlags) \o EncFrames(rows), row |-> EncFrame(fr),
     reps |-> reps, suf |-> suf]

BulkCalls ==
    {Call(<<>>, BulkInput(<<>>, NoFrame, reps, EndOfData),
          Wire("valid", <<>>, NoFrame, reps), 0) :
        reps \in {starting_column_buffer_length, starting_column_buffer_length + 1,
                  2 * starting_column_buffer_length + 1}}
    \cup
    {Call(<<5>>, BulkInput(<<Frame(1, <<>>, <<NullField>>)>>,
                          Frame(1, <<>>, <<Value(<<1>>)>>),
                          starting_column_buffer_length, EndOfData),
          Wire("valid", <<Frame(1, <<>>, <<NullField>>)>>,
               Frame(1, <<>>, <<Value(<<1>>)>>), starting_column_buffer_length), 0)}
    \cup
    \* a row that breaks off in its first column after 512 complete rows
    {Call(<<2, 5>>,
          BulkInput(<<>>, Frame(2, <<>>, <<Value(<<0, 0, 0, 0, 0, 0, 0, 42>>), Value(<<1>>)>>),
                    starting_column_buffer_length \div 8,
                    EncFrame(Frame(2, <<>>, <<Field(-2, <<>>)>>))),
          Wire("malformed", <<>>,
               Frame(2, <<>>, <<Value(<<0, 0, 0, 0, 0, 0, 0, 42>>), Value(<<1>>)>>),
               starting_column_buffer_length \div 8), 0)}

\* the calls of the allocator before the first growth of a text column and
\* a bool column whose first row has a null text: three pointer arrays, the
\* tuple, the buffer, four column buffers, and a string for every other row
CallsBeforeGrowth == 3 + 1 + 1 + 4 + (starting_column_buffer_length - 1)

\* one row more than the starting capacity of text and bool, the text of the
\* first row null, and one of the four reallocations of the growth fails
GrowFailingCalls ==
    {Call(<<6, 5>>,
          BulkInput(<<Frame(2, <<>>, <<NullField, Value(<<1>>)>>)>>,
                    Frame(2, <<>>, <<Value(<<97>>), Value(<<1>>)>>),
                    starting_column_buffer_length, EndOfData),
          Wire("valid", <<Frame(2, <<>>, <<NullField, Value(<<1>>)>>)>>,
               Frame(2, <<>>, <<Value(<<97>>), Value(<<1>>)>>),
               starting_column_buffer_length), CallsBeforeGrowth + k) :
        k \in 1..4}

\* with-OIDs payloads of two int32 rows whose OID words vary: zero, a table's
\* OID, and the bits of a field count or length of -1
OidWords == {Zeros(4), <<0, 0, 64, 7>>, <<255, 255, 255, 255>>}
OidCalls ==
    {LET rows == <<Frame(1, o1, <<Value(<<0, 0, 0, 42>>)>>),
                   Frame(1, o2, <<NullField>>)>>
     IN  Call(<<1>>, SmallInput(GoodHeader(WithOids) \o EncFrames(rows) \o EndOfData),
              Wire("valid", rows, NoFrame, 0), 0) :
        o1 \in OidWords, o2 \in OidWords}

\* lengths below -1: the one next to -1, the two between which the sum of
\* the cursor of the first field (25 after its length word) and the length
\* as a size_t stops passing 2^64, and the least int32_t
NegativeLengths == {-2, -25, -26, -2147483647 - 1}

\* one row whose first field has a length below -1, of int32 and of text
NegativeLengthCalls ==
    {Call(ts, SmallInput(GoodHeader(NoFlags)
                         \o EncFrame(Frame(1, <<>>, <<Field(d, <<>>)>>))
                         \o EndOfData),
          Wire("malformed", <<>>, NoFrame, 0), 0) :
        ts \in {<<1>>, <<6>>}, d \in NegativeLengths}

Calls ==
    UNION {ValidCalls(ts) \cup TruncatedCalls(ts) \cup MalformedCalls(ts) :
           ts \in TypeTuples}
    \cup HeaderCalls \cup ArgumentCalls \cup FailingCalls \cup BulkCalls
    \cup OidCalls \cup GrowFailingCalls \cup NegativeLengthCalls

(* ------------------------------------------------------------------ *)
(* warp_prism_to_arrays, up to the call of the decoder                *)
(* ------------------------------------------------------------------ *)
ncolumns == Len(ids)

\* the k-th call of the allocator from now is the one that fails
Fails(k) == failAt # 0 /\ calls + k = failAt

\* a pointer array of ncolumns elements as PyMem_Malloc delivers it
Unassigned == [i \in 1..ncolumns |-> Indeterminate]

DecoderVars == <<cursor, flags, extension_area, row_count, allocated_rows,
                 field_count, n, rc, written_rows, errcol, pyerr>>
BufferVars == <<outarrays, outmasks, vals, masks, strLive, noneRefs>>
HistoryVars == <<readHi, typeidsIndexed, grows, allocated, cleanupWrites>>
ArgVars == <<nargs, failAt, isTuple, ids, input, input_len, wire>>
WrapVars == <<wrap_n, acapsules, mcapsules>>
ObjectVars == <<types, ptr_outarrays, ptr_outmasks, ptr_types, out, view, result,
                WrapVars>>

\* the checks of the arguments
ToArraysArgs ==
    /\ pc = "args"
    /\ IF nargs # 2 \/ ~isTuple \/ ncolumns > UINT16_MAX
       THEN pc' = "returned" /\ result' = "NULL"
       ELSE pc' = "alloc_ptrs" /\ result' = result
    /\ UNCHANGED <<ArgVars, WrapVars, DecoderVars, BufferVars, HistoryVars, calls, heap, ub,
                   types, ptr_outarrays, ptr_outmasks, ptr_types, out, view>>

\* outarrays, outmasks and types are allocated, in this order
AllocPointerArrays ==
    /\ pc = "alloc_ptrs"
    /\ LET h1 == PyMem_Malloc(heap, "outarrays", sizeof_pointer * ncolumns)
           h2 == PyMem_Malloc(h1, "outmasks", sizeof_pointer * ncolumns)
           h3 == PyMem_Malloc(h2, "types", sizeof_pointer * ncolumns)
       IN  IF Fails(1)
           THEN /\ calls' = calls + 1
                /\ UNCHANGED <<heap, ptr_outarrays, ptr_outmasks, ptr_types>>
                /\ pc' = "free_arrays"
           ELSE IF Fails(2)
           THEN /\ calls' = calls + 2
                /\ heap' = h1
                /\ ptr_outarrays' = NextAddr(heap)
                /\ UNCHANGED <<ptr_outmasks, ptr_types>>
                /\ pc' = "free_arrays"
           ELSE IF Fails(3)
           THEN /\ calls' = calls + 3
                /\ heap' = h2
                /\ ptr_outarrays' = NextAddr(heap)
                /\ ptr_outmasks' = NextAddr(h1)
                /\ UNCHANGED ptr_types
                /\ pc' = "free_arrays"
           ELSE /\ calls' = calls + 3
                /\ heap' = h3
                /\ ptr_outarrays' = NextAddr(heap)
                /\ ptr_outmasks' = NextAddr(h1)
                /\ ptr_types' = NextAddr(h2)
                /\ pc' = "lookup"
    /\ outarrays' = Unassigned
    /\ outmasks' = Unassigned
    /\ types' = Unassigned
    /\ UNCHANGED <<ArgVars, WrapVars, DecoderVars, HistoryVars, vals, masks, strLive,
                   noneRefs, ub, out, view, result>>

\* PyLong_AsUnsignedLong sets an error for a negative item
PyErr_Occurred(item) == item < 0

\* the test that lets an item of the tuple index typeids
IdRejected(item) == PyErr_Occurred(item) \/ item > max_typeid

\* the loop over the type ids: it stops at the first item it rejects; an item
\* it accepts indexes typeids, and an index outside the table delivers any
\* descriptor or a pointer that cannot be dereferenced
LookupTypeIds ==
    /\ pc = "lookup"
    /\ LET rejected == {i \in 1..ncolumns : IdRejected(ids[i])}
           stop == IF rejected = {} THEN ncolumns + 1
                   ELSE CHOOSE i \in rejected : \A j \in rejected : i <= j
           looked == 1..(stop - 1)
           outside == {i \in looked : ids[i] >= Len(typeids)}
       IN  /\ \E got \in [outside -> (0..(Len(typeids) - 1)) \cup {Wild}] :
                  types' = [i \in 1..ncolumns |->
                               IF i \in outside THEN got[i]
                               ELSE IF i \in looked THEN ids[i]
                               ELSE Indeterminate]
           /\ typeidsIndexed' = typeidsIndexed \cup {ids[i] : i \in looked}
           /\ ub' = (ub \/ outside # {})
           /\ pc' = IF rejected = {} THEN "new_tuple" ELSE "free_arrays"
    /\ UNCHANGED <<ArgVars, WrapVars, DecoderVars, BufferVars, calls, heap, readHi, grows,
                   allocated, cleanupWrites, ptr_outarrays, ptr_outmasks,
                   ptr_types, out, view, result>>

\* out = PyTuple_New(ncolumns)
NewTuple ==
    /\ pc = "new_tuple"
    /\ calls' = calls + 1
    /\ IF Fails(1)
       THEN pc' = "free_arrays" /\ out' = out
       ELSE pc' = "get_buffer" /\ out' = "live"
    /\ UNCHANGED <<ArgVars, WrapVars, DecoderVars, BufferVars, HistoryVars, heap, ub, types,
                   ptr_outarrays, ptr_outmasks, ptr_types, view, result>>

\* PyObject_GetBuffer(args[0], &view, PyBUF_CONTIG_RO)
GetBuffer ==
    /\ pc = "get_buffer"
    /\ calls' = calls + 1
    /\ IF Fails(1)
       THEN pc' = "returned" /\ result' = "NULL" /\ view' = view
       ELSE pc' = "rb_signature" /\ result' = result /\ view' = "held"
    /\ UNCHANGED <<ArgVars, WrapVars, DecoderVars, BufferVars, HistoryVars, heap, ub, types,
                   ptr_outarrays, ptr_outmasks, ptr_types, out>>

(* ------------------------------------------------------------------ *)
(* warp_prism_read_binary_results: the header                         *)
(* ------------------------------------------------------------------ *)
Untouched == <<ArgVars, ObjectVars, BufferVars, calls, heap, ub, typeidsIndexed,
               grows, allocated, cleanupWrites, errcol>>

\* the errors the decoder ends with: the exception and what it says
PyErr ==
    [OutOfBounds |-> "ValueError: reading bytes would cause an out of bounds access",
     CursorOverflow |-> "ValueError: consuming bytes would cause an overflow",
     MismatchedSize |-> "ValueError: mismatched size",
     WrongNullSize |-> "ValueError: wrong size for NULL field",
     MissingSignature |-> "ValueError: missing postgres signature",
     InvalidFlags |-> "ValueError: invalid flags in header",
     NonZeroExtension |-> "ValueError: non-zero extension area length",
     MismatchedFieldCount |-> "ValueError: mismatched field_count and ncolumns",
     UnicodeDecode |-> "UnicodeDecodeError",
     NoMemory |-> "MemoryError",
     \* -1 is returned and PyErr_Occurred() is NULL
     NotSet |-> "no error set"]

\* the error assert_can_consume sets when it returns true
ConsumeError(size, cur) ==
    IF add_overflow(cur, size) THEN PyErr.CursorOverflow ELSE PyErr.OutOfBounds

\* return -1 with the error e set and nothing else done
Fail(e) == rc' = -1 /\ pc' = "rb_return" /\ pyerr' = e

\* the step sets no error and does not return
Go == rc' = rc /\ pyerr' = pyerr

\* the signature test; memcmp runs only on a buffer of 11 bytes or more
CheckSignature ==
    /\ pc = "rb_signature"
    /\ row_count' = 0
    /\ allocated_rows' = starting_column_buffer_length
    /\ IF input_len < signature_len
       THEN Fail(PyErr.MissingSignature) /\ UNCHANGED <<cursor, readHi>>
       ELSE /\ readHi' = Max(readHi, signature_len)
            /\ IF Bytes(0, signature_len) # signature
               THEN Fail(PyErr.MissingSignature) /\ cursor' = 0
               ELSE cursor' = signature_len /\ pc' = "rb_flags" /\ Go
    /\ UNCHANGED <<Untouched, flags, extension_area, field_count, n, written_rows>>

\* the flags word
ReadFlags ==
    /\ pc = "rb_flags"
    /\ LET c == checked_consume32(cursor, input_len)
       IN  /\ readHi' = Max(readHi, c.read)
           /\ cursor' = c.cursor
           /\ IF c.err THEN Fail(ConsumeError(ToSizeT(4), cursor)) /\ flags' = flags
              ELSE /\ flags' = c.val
                   /\ IF ~valid_flags(c.val) THEN Fail(PyErr.InvalidFlags)
                      ELSE pc' = "rb_ext" /\ Go
    /\ UNCHANGED <<Untouched, extension_area, row_count, allocated_rows,
                   field_count, n, written_rows>>

\* the length of the header extension area
ReadExtension ==
    /\ pc = "rb_ext"
    /\ LET c == checked_consume32(cursor, input_len)
       IN  /\ readHi' = Max(readHi, c.read)
           /\ cursor' = c.cursor
           /\ IF c.err
              THEN Fail(ConsumeError(ToSizeT(4), cursor))
                   /\ extension_area' = extension_area
              ELSE extension_area' = c.val /\ pc' = "rb_ext_skip" /\ Go
    /\ UNCHANGED <<Untouched, flags, row_count, allocated_rows, field_count, n,
                   written_rows>>

\* cursor += extension_area, then an extension area that is not empty is refused
SkipExtension ==
    /\ pc = "rb_ext_skip"
    /\ cursor' = cursor + U32(extension_area)
    /\ IF extension_area # Zeros(4) THEN Fail(PyErr.NonZeroExtension)
       ELSE pc' = "rb_allocate" /\ Go
    /\ UNCHANGED <<Untouched, readHi, flags, extension_area, row_count,
                   allocated_rows, field_count, n, written_rows>>

(* ------------------------------------------------------------------ *)
(* the column buffers                                                 *)
(* ------------------------------------------------------------------ *)
TypeOf(c) == typeids[types[c + 1] + 1]

\* what a loop over the columns works on
Work == Mem @@ [arrs |-> outarrays, msks |-> outmasks, calls |-> calls,
                status |-> "run", n |-> 0]

MemOf(w) == [heap |-> w.heap, strLive |-> w.strLive, noneRefs |-> w.noneRefs,
             ub |-> w.ub]

\* the for loop of allocate_outarrays from column k on; status "ok" when
\* every column has its two buffers, "error" at the goto, "crash" when
\* column_types[k] cannot be dereferenced
RECURSIVE AllocateLoop(_, _)
AllocateLoop(k, w) ==
    IF k >= ncolumns THEN [w EXCEPT !.status = "ok", !.n = k]
    ELSE IF types[k + 1] = Wild THEN [w EXCEPT !.status = "crash", !.n = k]
    ELSE IF mul_overflow(starting_column_buffer_length, TypeOf(k).size)
    THEN [w EXCEPT !.status = "error", !.n = k]
    ELSE IF w.calls + 1 = failAt
    THEN [w EXCEPT !.calls = @ + 1, !.arrs[k + 1] = NULL,
                   !.status = "error", !.n = k]
    ELSE LET h1 == PyMem_Malloc(w.heap, "values",
                                starting_column_buffer_length * TypeOf(k).size)
             a == NextAddr(w.heap)
             w1 == [w EXCEPT !.calls = @ + 1, !.heap = h1, !.arrs[k + 1] = a]
         IN  IF w1.calls + 1 = failAt
             THEN \* column_types[n]->free(outarrays[n], 0)
                  LET m == CallFree(MemOf(w1), TypeOf(k), a, <<>>, 0)
                  IN  [w1 EXCEPT !.calls = @ + 1, !.msks[k + 1] = NULL,
                                 !.heap = m.heap, !.ub = m.ub,
                                 !.status = "error", !.n = k]
             ELSE LET h2 == PyMem_Malloc(w1.heap, "mask",
                                         starting_column_buffer_length)
                  IN  AllocateLoop(k + 1,
                          [w1 EXCEPT !.calls = @ + 1, !.heap = h2,
                                     !.msks[k + 1] = NextAddr(w1.heap)])

\* the number of columns the error label of allocate_outarrays frees
AllocatedBefore(k) == k - 1

\* allocate_outarrays with its error label
allocate_outarrays ==
    LET w == AllocateLoop(0, Work)
    IN  IF w.status = "error" /\ w.n > 0
        THEN LET m == free_outarrays(MemOf(w), AllocatedBefore(w.n), 0, types,
                                     w.arrs, w.msks, vals)
             IN  [w EXCEPT !.heap = m.heap, !.ub = m.ub]
        ELSE w

\* the capacity after a growth
GrownCapacity(old_row_count) == old_row_count * column_buffer_growth_factor

\* the for loop of grow_outarrays from column k on
RECURSIVE GrowLoop(_, _, _)
GrowLoop(k, new_row_count, w) ==
    IF k >= ncolumns THEN [w EXCEPT !.status = "ok", !.n = k]
    ELSE IF mul_overflow(new_row_count, TypeOf(k).size)
    THEN [w EXCEPT !.status = "error", !.n = k]
    ELSE IF w.calls + 1 = failAt
    THEN [w EXCEPT !.calls = @ + 1, !.status = "error", !.n = k]
    ELSE LET h1 == PyMem_Realloc(w.heap, w.arrs[k + 1],
                                 new_row_count * TypeOf(k).size)
             w1 == [w EXCEPT !.calls = @ + 1, !.heap = h1,
                             !.arrs[k + 1] = NextAddr(w.heap)]
         IN  IF w1.calls + 1 = failAt
             THEN [w1 EXCEPT !.calls = @ + 1, !.status = "error", !.n = k]
             ELSE GrowLoop(k + 1, new_row_count,
                      [w1 EXCEPT !.calls = @ + 1,
                                 !.heap = PyMem_Realloc(w1.heap, w1.msks[k + 1],
                                                        new_row_count),
                                 !.msks[k + 1] = NextAddr(w1.heap)])

\* an error label that frees the rows of the new capacity
GrowCleanupRows_new(old_row_count) == GrownCapacity(old_row_count)

\* the row count the error label of grow_outarrays gives to free_outarrays
GrowCleanupRows(old_row_count) == old_row_count

\* grow_outarrays(ncolumns, &allocated_rows, ...) with its error label
grow_outarrays(old_row_count) ==
    LET new_row_count == GrownCapacity(old_row_count)
        w == IF mul_overflow(old_row_count, column_buffer_growth_factor)
                \/ mul_overflow(new_row_count, 1)
             THEN [Work EXCEPT !.status = "error"]
             ELSE GrowLoop(0, new_row_count, Work)
    IN  IF w.status = "error"
        THEN LET m == free_outarrays(MemOf(w), ncolumns,
                                     GrowCleanupRows(old_row_count), types,
                                     w.arrs, w.msks, vals)
             IN  [w EXCEPT !.heap = m.heap, !.strLive = m.strLive,
                           !.noneRefs = m.noneRefs, !.ub = m.ub]
        ELSE w

\* the call of allocate_outarrays
AllocateOutarrays ==
    /\ pc = "rb_allocate"
    /\ LET w == allocate_outarrays
       IN  /\ heap' = w.heap
           /\ calls' = w.calls
           /\ ub' = w.ub
           /\ outarrays' = w.arrs
           /\ outmasks' = w.msks
           /\ allocated' = (w.status = "ok")
           /\ IF w.status = "ok" THEN pc' = "rb_row" /\ Go
              ELSE IF w.status = "crash" THEN pc' = "crashed" /\ Go
              ELSE Fail(PyErr.NotSet)
    /\ vals' = [c \in 1..ncolumns |-> <<>>]
    /\ masks' = [c \in 1..ncolumns |-> <<>>]
    /\ UNCHANGED <<ArgVars, ObjectVars, strLive, noneRefs, readHi, typeidsIndexed,
                   grows, cleanupWrites, errcol, cursor, flags, extension_area,
                   row_count, allocated_rows, field_count, n, written_rows>>

(* ------------------------------------------------------------------ *)
(* warp_prism_read_binary_results: the row loop                       *)
(* ------------------------------------------------------------------ *)
\* free_outarrays(ncolumns, rowcount, ...) on the buffers as they are
FreeAll(rowcount) ==
    free_outarrays(Mem, ncolumns, rowcount, types, outarrays, outmasks, vals)

\* the end-of-data test taken for any negative field count
IsEndOfData_negative(fc) == fc < 0

\* a decoder that takes no field count for the end of the input data
IsEndOfData_never(fc) == FALSE

\* field_count == -1 signals the end of the input data
IsEndOfData(fc) == fc = -1

\* the field count of a row: end of data, a row to decode, or a mismatch
ReadFieldCount ==
    /\ pc = "rb_row"
    /\ LET c == checked_consume16(cursor, input_len)
           fc == S16(c.val)
       IN  /\ readHi' = Max(readHi, c.read)
           /\ cursor' = c.cursor
           /\ IF c.err
              THEN /\ LET m == FreeAll(row_count)
                      IN  /\ heap' = m.heap /\ strLive' = m.strLive
                          /\ noneRefs' = m.noneRefs /\ ub' = m.ub
                   /\ Fail(ConsumeError(ToSizeT(2), cursor))
                   /\ UNCHANGED <<field_count, written_rows>>
              ELSE /\ field_count' = fc
                   /\ UNCHANGED <<heap, strLive, noneRefs, ub>>
                   /\ IF IsEndOfData(fc)
                      THEN /\ written_rows' = row_count
                           /\ rc' = 0
                           /\ pyerr' = pyerr
                           /\ pc' = "rb_return"
                      ELSE IF fc # ncolumns
                      THEN Fail(PyErr.MismatchedFieldCount) /\ written_rows' = written_rows
                      ELSE /\ pc' = IF have_oids(flags) THEN "rb_oid" ELSE "rb_grow"
                           /\ UNCHANGED <<rc, pyerr, written_rows>>
    /\ UNCHANGED <<ArgVars, ObjectVars, outarrays, outmasks, vals, masks, calls,
                   typeidsIndexed, grows, allocated, cleanupWrites, errcol, flags,
                   extension_area, row_count, allocated_rows, n>>

\* the OID of a row is read and dropped
ReadOid ==
    /\ pc = "rb_oid"
    /\ LET c == checked_consume32(cursor, input_len)
       IN  /\ readHi' = Max(readHi, c.read)
           /\ cursor' = c.cursor
           /\ IF c.err
              THEN /\ LET m == FreeAll(row_count)
                      IN  /\ heap' = m.heap /\ strLive' = m.strLive
                          /\ noneRefs' = m.noneRefs /\ ub' = m.ub
                   /\ Fail(ConsumeError(ToSizeT(4), cursor))
              ELSE /\ UNCHANGED <<heap, strLive, noneRefs, ub, rc, pyerr>>
                   /\ pc' = "rb_grow"
    /\ UNCHANGED <<ArgVars, ObjectVars, outarrays, outmasks, vals, masks, calls,
                   typeidsIndexed, grows, allocated, cleanupWrites, errcol, flags,
                   extension_area, row_count, allocated_rows, field_count, n,
                   written_rows>>

\* the growth test on the row count after its increment
NeedsGrow_early(rows, capacity) == rows + 1 = capacity

\* the growth test that waits for one row more than the capacity
NeedsGrow_late(rows, capacity) == rows = capacity + 1

\* row_count++ == allocated_rows
NeedsGrow(rows, capacity) == rows = capacity

\* the row count advances; the buffers grow when they are full
AdvanceRow ==
    /\ pc = "rb_grow"
    /\ row_count' = row_count + 1
    /\ n' = 0
    /\ IF NeedsGrow(row_count, allocated_rows)
       THEN LET w == grow_outarrays(allocated_rows)
            IN  /\ grows' = grows + 1
                /\ allocated_rows' = GrownCapacity(allocated_rows)
                /\ heap' = w.heap /\ strLive' = w.strLive
                /\ noneRefs' = w.noneRefs /\ ub' = w.ub
                /\ calls' = w.calls
                /\ outarrays' = w.arrs /\ outmasks' = w.msks
                /\ IF w.status = "ok"
                   THEN /\ pc' = IF ncolumns = 0 THEN "rb_row" ELSE "rb_field"
                        /\ Go
                   ELSE Fail(PyErr.NotSet)
       ELSE /\ UNCHANGED <<grows, allocated_rows, heap, strLive, noneRefs, ub,
                           calls, outarrays, outmasks, rc, pyerr>>
            /\ pc' = IF ncolumns = 0 THEN "rb_row" ELSE "rb_field"
    /\ UNCHANGED <<ArgVars, ObjectVars, vals, masks, readHi, typeidsIndexed,
                   allocated, cleanupWrites, errcol, cursor, flags,
                   extension_area, field_count, written_rows>>

\* the mask byte of a field with the test inverted
FieldPresent_inverted(datalen) == datalen = -1

\* outmasks[n][row_ix] = (datalen != -1)
FieldPresent(datalen) == datalen # -1

\* the slot of row r of a column set to s; slots never written stay Uninit
SetSlot(col, r, s) ==
    ColJoin(<<>>, ColTake(col, r) \o <<[s |-> s, k |-> 1]>> \o ColDrop(col, r + 1))

\* one field of the column loop: its length word, its mask byte, and its
\* null or its parsed value; "goto error" leaves the column in n
ReadField ==
    /\ pc = "rb_field"
    /\ LET column_type == TypeOf(n)
           row_ix == row_count - 1
           c == checked_consume32(cursor, input_len)
           datalen == S32(c.val)
           isText == column_type.parse = "parse_text"
           null == CallWriteNull(column_type, column_type.size)
           p == CallParse(column_type, c.cursor, datalen, isText /\ Fails(1))
           Continue == /\ n' = n + 1
                       /\ pyerr' = pyerr
                       /\ pc' = IF n + 1 < ncolumns THEN "rb_field" ELSE "rb_row"
                       /\ errcol' = errcol
           GotoError(e) == n' = n /\ pc' = "rb_error" /\ errcol' = n /\ pyerr' = e
           perr == IF ~isText THEN PyErr.MismatchedSize
                   ELSE IF Fails(1) THEN PyErr.NoMemory ELSE PyErr.UnicodeDecode
       IN  IF c.err
           THEN /\ GotoError(ConsumeError(ToSizeT(4), cursor))
                /\ readHi' = Max(readHi, c.read)
                /\ UNCHANGED <<cursor, vals, masks, strLive, noneRefs, calls>>
           ELSE /\ masks' = [masks EXCEPT ![n + 1] = SetSlot(@, row_ix, FieldPresent(datalen))]
                /\ IF ~FieldPresent(datalen)
                   THEN /\ readHi' = Max(readHi, c.read)
                        /\ cursor' = c.cursor
                        /\ calls' = calls
                        /\ strLive' = strLive
                        /\ IF null.err
                           THEN GotoError(PyErr.WrongNullSize)
                                /\ UNCHANGED <<vals, noneRefs>>
                           ELSE /\ vals' = [vals EXCEPT ![n + 1] =
                                               SetSlot(@, row_ix, null.slot)]
                                /\ noneRefs' = noneRefs +
                                       (IF null.slot.tag = "none" THEN 1 ELSE 0)
                                /\ Continue
                   ELSE IF assert_can_consume(ToSizeT(datalen), c.cursor, input_len)
                   THEN /\ GotoError(ConsumeError(ToSizeT(datalen), c.cursor))
                        /\ readHi' = Max(readHi, c.read)
                        /\ cursor' = c.cursor
                        /\ UNCHANGED <<vals, strLive, noneRefs, calls>>
                   ELSE /\ readHi' = Max(readHi, IF p.read = 0 THEN c.read
                                                 ELSE c.cursor + p.read)
                        /\ calls' = calls + (IF isText THEN 1 ELSE 0)
                        /\ noneRefs' = noneRefs
                        /\ IF p.err
                           THEN /\ GotoError(perr)
                                /\ cursor' = c.cursor
                                /\ UNCHANGED <<vals, strLive>>
                           ELSE /\ vals' = [vals EXCEPT ![n + 1] =
                                               SetSlot(@, row_ix, p.slot)]
                                /\ strLive' = strLive +
                                       (IF p.slot.tag = "str" THEN 1 ELSE 0)
                                /\ cursor' = c.cursor + datalen
                                /\ Continue
    /\ UNCHANGED <<ArgVars, ObjectVars, outarrays, outmasks, heap, ub,
                   typeidsIndexed, grows, allocated, cleanupWrites, flags,
                   extension_area, row_count, allocated_rows, field_count, rc,
                   written_rows>>

(* ------------------------------------------------------------------ *)
(* the error label of the column loop                                 *)
(* ------------------------------------------------------------------ *)
\* the offset in column j's buffer that the error label zeroes for row_ix,
\* when the column loop failed at column k
NullOffset(row_ix, k, j) == row_ix * TypeOf(k).size

\* memset(buffer + lo, 0, size) on a column of slots of that size: a slot the
\* range covers becomes zero, a slot it covers in part is torn; the part of
\* the range past the last slot of the buffer (capacity slots) is dropped here
ZeroRange(col, size, lo, capacity) ==
    LET first == lo \div size
        last == (lo + size - 1) \div size
        Touch(c, s) == IF s < capacity
                       THEN SetSlot(c, s, IF first = last THEN Raw(Zeros(size))
                                          ELSE Torn)
                       ELSE c
    IN  IF first = last THEN Touch(col, first)
        ELSE Touch(Touch(col, first), last)

\* the loop that writes a NULL to the columns not yet written
ErrorNulls ==
    /\ pc = "rb_error"
    /\ LET row_ix == row_count - 1
           rest == {j \in 0..(ncolumns - 1) : j >= n}
           lo(j) == NullOffset(row_ix, errcol, j)
           hi(j) == lo(j) + TypeOf(j).size
       IN  /\ cleanupWrites' = cleanupWrites \cup
                  {[col |-> j, lo |-> lo(j), hi |-> hi(j)] : j \in rest}
           /\ vals' = [c \in 1..ncolumns |->
                          IF (c - 1) \in rest
                          THEN ZeroRange(vals[c], TypeOf(c - 1).size, lo(c - 1),
                                         allocated_rows)
                          ELSE vals[c]]
           /\ ub' = (ub \/ \E j \in rest : hi(j) > heap[outarrays[j + 1]].size)
    /\ n' = ncolumns
    /\ pc' = "rb_error_free"
    /\ UNCHANGED <<ArgVars, ObjectVars, outarrays, outmasks, masks, strLive,
                   noneRefs, calls, heap, readHi, typeidsIndexed, grows, allocated,
                   errcol, cursor, flags, extension_area, row_count,
                   allocated_rows, field_count, rc, written_rows, pyerr>>

\* free_outarrays(ncolumns, row_count, ...) and return -1; a free of
\* corrupted memory may also end the process
ErrorFree ==
    /\ pc = "rb_error_free"
    /\ LET m == FreeAll(row_count)
       IN  /\ heap' = m.heap /\ strLive' = m.strLive
           /\ noneRefs' = m.noneRefs /\ ub' = m.ub
           /\ rc' = -1
           /\ \/ pc' = "rb_return"
              \/ m.ub /\ pc' = "crashed"
    /\ UNCHANGED <<ArgVars, ObjectVars, outarrays, outmasks, vals, masks, calls,
                   readHi, typeidsIndexed, grows, allocated, cleanupWrites, errcol,
                   cursor, flags, extension_area, row_count, allocated_rows,
                   field_count, n, written_rows, pyerr>>

(* ------------------------------------------------------------------ *)
(* warp_prism_to_arrays, after the decoder                            *)
(* ------------------------------------------------------------------ *)
\* the decoder has returned: the view is released; an error goes to free_arrays
DecodeReturn ==
    /\ pc = "rb_return"
    /\ view' = "released"
    /\ pc' = IF rc # 0 THEN "free_arrays" ELSE "wrap"
    /\ UNCHANGED <<ArgVars, WrapVars, DecoderVars, BufferVars, HistoryVars, calls, heap, ub,
                   types, ptr_outarrays, ptr_outmasks, ptr_types, out, result>>

\* the capsule of the block at address a, and a capsule after its destructor
Destroyed(cap) == [cap EXCEPT !.state = "destroyed"]
Capsule(a) == [state |-> "live", contents |-> a]

\* free_acapsule: the destructor of the capsule of column c (from 1), whose
\* capsule_contents is the block at address ac
free_acapsule(m, c, ac) ==
    LET f == CallFree(m, typeids[types[c] + 1], outarrays[c], vals[c], written_rows)
    IN  [f EXCEPT !.heap = PyMem_Free(f.heap, ac),
                  !.ub = f.ub \/ BadFree(f.heap, ac)]

\* free_mcapsule: the destructor of the capsule of the mask of column c
free_mcapsule(m, c) ==
    [m EXCEPT !.heap = PyMem_Free(m.heap, outmasks[c]),
              !.ub = m.ub \/ BadFree(m.heap, outmasks[c])]

\* the tuple out is destroyed: the pairs of its first k columns go, with
\* them their arrays, and with each array the capsule that is its base
RECURSIVE DestroyPairs(_, _)
DestroyPairs(m, k) ==
    IF k = 0 THEN m
    ELSE free_mcapsule(free_acapsule(DestroyPairs(m, k - 1), k,
                                     acapsules[k].contents), k)

\* which of the six calls of one turn of the wrapping loop fails, 0 for none:
\* PyArray_NewFromDescr, PyMem_Malloc, PyCapsule_New,
\* PyArray_SimpleNewFromData, PyCapsule_New, PyTuple_New.
\* PyArray_SetBaseObject fails only on an array that has a base already
FailedCall == IF failAt # 0 /\ failAt - calls \in 1..6 THEN failAt - calls ELSE 0

\* one turn of the wrapping loop: column wrap_n becomes a pair of arrays in
\* out, or a call fails, what was made in this turn is released, out is
\* released and control goes to clear_arrays
WrapColumn ==
    /\ pc = "wrap"
    /\ wrap_n < ncolumns
    /\ LET c == wrap_n + 1
           ac == NextAddr(heap)
           h1 == IF FailedCall \in {1, 2} THEN heap
                 ELSE PyMem_Malloc(heap, "capsule_contents", 3 * sizeof_pointer)
           m0 == [Mem EXCEPT !.heap = h1]
           \* PyMem_Free(ac), or Py_DECREF of the arrays of this turn
           m1 == CASE FailedCall = 3 -> [m0 EXCEPT !.heap = PyMem_Free(h1, ac)]
                   [] FailedCall \in {4, 5} -> free_acapsule(m0, c, ac)
                   [] FailedCall = 6 -> free_mcapsule(free_acapsule(m0, c, ac), c)
                   [] OTHER -> m0
           \* Py_DECREF(out)
           m2 == IF FailedCall # 0 THEN DestroyPairs(m1, wrap_n) ELSE m1
       IN  /\ heap' = m2.heap /\ strLive' = m2.strLive
           /\ noneRefs' = m2.noneRefs /\ ub' = m2.ub
           /\ calls' = calls + (IF FailedCall = 0 THEN 6 ELSE FailedCall)
           /\ IF FailedCall = 0
              THEN /\ acapsules' = Append(acapsules, Capsule(ac))
                   /\ mcapsules' = Append(mcapsules, Capsule(outmasks[c]))
                   /\ wrap_n' = wrap_n + 1
                   /\ pc' = "wrap"
                   /\ out' = out
              ELSE /\ acapsules' =
                          [i \in 1..wrap_n |-> Destroyed(acapsules[i])]
                          \o (IF FailedCall > 3 THEN <<Destroyed(Capsule(ac))>>
                              ELSE <<>>)
                   /\ mcapsules' =
                          [i \in 1..wrap_n |-> Destroyed(mcapsules[i])]
                          \o (IF FailedCall = 6
                              THEN <<Destroyed(Capsule(outmasks[c]))>> ELSE <<>>)
                   /\ wrap_n' = wrap_n
                   /\ pc' = "clear_arrays"
                   /\ out' = "freed"
    /\ UNCHANGED <<ArgVars, DecoderVars, HistoryVars, outarrays, outmasks, vals,
                   masks, types, ptr_outarrays, ptr_outmasks, ptr_types, view,
                   result>>

\* return out
ReturnOut ==
    /\ pc = "wrap"
    /\ wrap_n >= ncolumns
    /\ result' = "out"
    /\ pc' = "returned"
    /\ UNCHANGED <<ArgVars, WrapVars, DecoderVars, BufferVars, HistoryVars, calls,
                   heap, ub, types, ptr_outarrays, ptr_outmasks, ptr_types, out,
                   view>>

\* clear_arrays: free_outarrays(ncolumns, written_rows, ...); a free of
\* memory that is free already may also end the process
ClearArrays ==
    /\ pc = "clear_arrays"
    /\ LET m == FreeAll(written_rows)
       IN  /\ heap' = m.heap /\ strLive' = m.strLive
           /\ noneRefs' = m.noneRefs /\ ub' = m.ub
           /\ \/ pc' = "free_arrays"
              \/ m.ub /\ pc' = "crashed"
    /\ UNCHANGED <<ArgVars, WrapVars, DecoderVars, HistoryVars, outarrays, outmasks,
                   vals, masks, calls, types, ptr_outarrays, ptr_outmasks,
                   ptr_types, out, view, result>>

\* the caller drops the result: the arrays go, and their capsules with them
DestroyResult ==
    /\ pc = "returned"
    /\ result = "out"
    /\ LET m == DestroyPairs(Mem, ncolumns)
       IN  /\ heap' = m.heap /\ strLive' = m.strLive
           /\ noneRefs' = m.noneRefs /\ ub' = m.ub
    /\ acapsules' = [i \in 1..ncolumns |-> Destroyed(acapsules[i])]
    /\ mcapsules' = [i \in 1..ncolumns |-> Destroyed(mcapsules[i])]
    /\ out' = "freed"
    /\ pc' = "collected"
    /\ UNCHANGED <<ArgVars, DecoderVars, HistoryVars, outarrays, outmasks, vals,
                   masks, calls, types, ptr_outarrays, ptr_outmasks, ptr_types,
                   view, result, wrap_n>>

\* free_arrays: the three pointer arrays are freed and NULL is returned
FreeArrays ==
    /\ pc = "free_arrays"
    /\ heap' = PyMem_Free(PyMem_Free(PyMem_Free(heap, ptr_outarrays),
                                     ptr_outmasks), ptr_types)
    /\ result' = "NULL"
    /\ pc' = "returned"
    /\ UNCHANGED <<ArgVars, WrapVars, DecoderVars, BufferVars, HistoryVars, calls, ub, types,
                   ptr_outarrays, ptr_outmasks, ptr_types, out, view>>

(* ------------------------------------------------------------------ *)
(* the specification                                                  *)
(* ------------------------------------------------------------------ *)
Init ==
    \E c \in Calls :
        /\ nargs = c.nargs
        /\ isTuple = c.isTuple
        /\ ids = c.ids
        /\ input = c.input
        /\ input_len = TotalLen(c.input)
        /\ wire = c.wire
        /\ failAt = c.failAt
        /\ calls = 0
        /\ pc = "args"
        /\ types = <<>>
        /\ ptr_outarrays = NULL
        /\ ptr_outmasks = NULL
        /\ ptr_types = NULL
        /\ out = "unset"
        /\ view = "unset"
        /\ result = "none"
        /\ cursor = 0
        /\ flags = <<>>
        /\ extension_area = <<>>
        /\ row_count = 0
        /\ allocated_rows = 0
        /\ field_count = 0
        /\ n = 0
        /\ rc = 0
        /\ written_rows = Indeterminate
        /\ outarrays = <<>>
        /\ outmasks = <<>>
        /\ heap = <<>>
        /\ vals = <<>>
        /\ masks = <<>>
        /\ strLive = 0
        /\ noneRefs = 0
        /\ readHi = 0
        /\ typeidsIndexed = {}
        /\ grows = 0
        /\ allocated = FALSE
        /\ errcol = -1
        /\ cleanupWrites = {}
        /\ ub = FALSE
        /\ pyerr = PyErr.NotSet
        /\ wrap_n = 0
        /\ acapsules = <<>>
        /\ mcapsules = <<>>

\* the state in which the row loop is entered for the call c, when its
\* arguments and its header are accepted and no call of the allocator fails:
\* the three pointer arrays, then a value buffer and a mask buffer for
\* every column, of the starting capacity
AtRowLoop(c) ==
    LET nc == Len(c.ids)
    IN  /\ nargs = c.nargs
        /\ isTuple = c.isTuple
        /\ ids = c.ids
        /\ input = c.input
        /\ input_len = TotalLen(c.input)
        /\ wire = c.wire
        /\ failAt = c.failAt
        /\ calls = 5 + 2 * nc
        /\ pc = "rb_row"
        /\ types = c.ids
        /\ ptr_outarrays = 1
        /\ ptr_outmasks = 2
        /\ ptr_types = 3
        /\ out = "live"
        /\ view = "held"
        /\ result = "none"
        /\ cursor = signature_len + 8
        /\ flags = SubSeq(c.input.pre, signature_len + 1, signature_len + 4)
        /\ extension_area = Zeros(4)
        /\ row_count = 0
        /\ allocated_rows = starting_column_buffer_length
        /\ field_count = 0
        /\ n = 0
        /\ rc = 0
        /\ written_rows = Indeterminate
        /\ outarrays = [k \in 1..nc |-> 2 + 2 * k]
        /\ outmasks = [k \in 1..nc |-> 3 + 2 * k]
        /\ heap = [a \in 1..(3 + 2 * nc) |->
                     [kind |-> IF a = 1 THEN "outarrays" ELSE IF a = 2 THEN "outmasks"
                               ELSE IF a = 3 THEN "types"
                               ELSE IF a % 2 = 0 THEN "values" ELSE "mask",
                      size |-> IF a <= 3 THEN nc * sizeof_pointer
                               ELSE IF a % 2 = 0
                               THEN starting_column_buffer_length
                                    * typeids[c.ids[(a - 2) \div 2] + 1].size
                               ELSE starting_column_buffer_length,
                      live |-> TRUE, frees |-> 0]]
        /\ vals = [k \in 1..nc |-> <<>>]
        /\ masks = [k \in 1..nc |-> <<>>]
        /\ strLive = 0
        /\ noneRefs = 0
        /\ readHi = signature_len + 8
        /\ typeidsIndexed = {c.ids[k] : k \in 1..nc}
        /\ grows = 0
        /\ allocated = TRUE
        /\ errcol = -1
        /\ cleanupWrites = {}
        /\ ub = FALSE
        /\ pyerr = PyErr.NotSet
        /\ wrap_n = 0
        /\ acapsules = <<>>
        /\ mcapsules = <<>>

\* the numbers of columns of the calls whose first row is looked at: the
\* small ones, the two around the largest int16_t, and the largest uint16_t
ColumnCounts == (0..MaxColumns) \cup {INT16_MAX, INT16_MAX + 1, UINT16_MAX}

\* a call with k bool columns and a payload of one row whose field count has
\* the 16 bits of k and whose k fields are null; the frame of so wide a row
\* is not spelled out
WideCall(k) ==
    Call([i \in 1..k |-> 5],
         [pre |-> GoodHeader(NoFlags) \o Enc16(k), row |-> EncField(NullField),
          reps |-> k, suf |-> EndOfData],
         Wire("wide", <<>>, NoFrame, 0), 0)

\* the decoder at the first row of a call of every number of columns
RowInit == \E k \in ColumnCounts : AtRowLoop(WideCall(k))

\* the field count of the first row is read and checked
RowSpec == RowInit /\ [][ReadFieldCount]_vars

Next ==
    \/ ToArraysArgs
    \/ AllocPointerArrays
    \/ LookupTypeIds
    \/ NewTuple
    \/ GetBuffer
    \/ CheckSignature
    \/ ReadFlags
    \/ ReadExtension
    \/ SkipExtension
    \/ AllocateOutarrays
    \/ ReadFieldCount
    \/ ReadOid
    \/ AdvanceRow
    \/ ReadField
    \/ ErrorNulls
    \/ ErrorFree
    \/ DecodeReturn
    \/ WrapColumn
    \/ ReturnOut
    \/ ClearArrays
    \/ DestroyResult
    \/ FreeArrays

Spec == Init /\ [][Next]_vars

(* ------------------------------------------------------------------ *)
(* what the claims speak of                                           *)
(* ------------------------------------------------------------------ *)
\* the decoder has returned 0
Decoded == pc \in {"rb_return", "wrap"} /\ rc = 0 /\ written_rows # Indeterminate

\* the decoder has returned -1 to warp_prism_to_arrays
DecodeFailed == pc = "rb_return" /\ rc = -1

\* the blocks of the column buffers, live or not
ColumnBlocks == {a \in DOMAIN heap : heap[a].kind \in {"values", "mask"}}
LiveColumnBlocks == {a \in ColumnBlocks : heap[a].live}

\* the rows a payload encodes
NFrames(w) == Len(w.frames) + w.reps
FrameAt(w, r) == IF r < Len(w.frames) THEN w.frames[r + 1] ELSE w.bulk

\* the length of a complete payload up to and with its end-of-data sentinel
PayloadLen(w) ==
    signature_len + 8 + Len(EncFrames(w.frames)) + w.reps * Len(EncFrame(w.bulk)) + 2

\* the null sentinel of a type: zero bytes, not-a-time, or a reference to None
Sentinel(t) ==
    IF t.dtype_name = "object" THEN NoneRef
    ELSE IF t.dtype_name \in {"datetime64[us]", "datetime64[D]"}
    THEN Raw(NPY_DATETIME_NAT)
    ELSE Raw(Zeros(t.size))

\* the value a column of type t holds for the value bytes data
Decodes(t, data) ==
    IF t.dtype_name = "object" THEN StrRef(data)
    ELSE IF t.dtype_name = "datetime64[us]" THEN Raw(AddWrap(data, datetime_offset))
    ELSE IF t.dtype_name = "datetime64[D]"
    THEN Raw(Zeros(4) \o AddWrap(data, date_offset))
    ELSE Raw(data)

\* the header of the input is one the decoder accepts
HeaderValid ==
    /\ input_len >= signature_len + 8
    /\ Bytes(0, 11) = signature
    /\ Bytes(11, 4) \in {<<0, 0, 0, 0>>, <<0, 1, 0, 0>>}
    /\ Bytes(15, 4) = <<0, 0, 0, 0>>

(* ------------------------------------------------------------------ *)
(* C1                                                                 *)
(* ------------------------------------------------------------------ *)
\* C1: no input byte at an index >= input_len is ever read: the highest
\* index read by the signature test, by a header, field count, OID or length
\* read, or by a parser, is below input_len
C1_NoReadPastInput == readHi <= input_len

\* a payload cut inside a value: the length word was read, the value refused
C1_Witness ==
    /\ pc = "rb_error"
    /\ wire.kind = "truncated"
    /\ readHi = cursor
    /\ cursor < input_len

(* ------------------------------------------------------------------ *)
(* C2                                                                 *)
(* ------------------------------------------------------------------ *)
\* C2: when the decoder returns an error after allocate_outarrays has
\* succeeded, every value buffer and every mask buffer has been freed
C2_ErrorFreesColumnBuffers == (DecodeFailed /\ allocated) => LiveColumnBlocks = {}

(* ------------------------------------------------------------------ *)
(* C3                                                                 *)
(* ------------------------------------------------------------------ *)
\* C3: when the column loop fails at column k of row r, then before
\* free_outarrays runs the slot of row r of every column j >= k is zero, and
\* the error label has written these slots and no other byte
C3_NullsInOwnSlots ==
    pc = "rb_error_free" =>
        LET r == row_count - 1
            rest == {j \in 0..(ncolumns - 1) : j >= errcol}
        IN  /\ \A j \in rest :
                   /\ ColLen(vals[j + 1]) > r
                   /\ ColAt(vals[j + 1], r + 1) = Raw(Zeros(TypeOf(j).size))
            /\ cleanupWrites =
                   {[col |-> j, lo |-> r * TypeOf(j).size,
                     hi |-> (r + 1) * TypeOf(j).size] : j \in rest}

(* ------------------------------------------------------------------ *)
(* C4                                                                 *)
(* ------------------------------------------------------------------ *)
UnknownTypeId == \E i \in 1..ncolumns : ids[i] \notin 0..8

\* C4: a tuple with a type id outside 0..8 is refused before any column
\* buffer is allocated, and typeids is indexed inside 0..8 only
C4_UnknownTypeIdRefused ==
    (nargs = 2 /\ isTuple /\ ncolumns <= UINT16_MAX /\ UnknownTypeId) =>
        /\ typeidsIndexed \subseteq 0..8
        /\ ColumnBlocks = {}
        /\ pc \in {"args", "alloc_ptrs", "lookup", "free_arrays", "returned"}
        /\ pc = "returned" => result = "NULL"

(* ------------------------------------------------------------------ *)
(* C5                                                                 *)
(* ------------------------------------------------------------------ *)
\* C5: a decode that succeeds has written as many rows as the payload has
\* row frames before its end-of-data sentinel; with no row frame the
\* capacity is still 4096
C5_WrittenRowsIsFrameCount ==
    Decoded =>
        /\ wire.kind = "valid"
        /\ written_rows = NFrames(wire)
        /\ NFrames(wire) = 0 =>
               /\ written_rows = 0
               /\ allocated_rows = 4096
               /\ \A c \in 1..ncolumns :
                      /\ heap[outarrays[c]].size = 4096 * TypeOf(c - 1).size
                      /\ heap[outmasks[c]].size = 4096

\* a payload of two rows of two columns has been decoded
C5_Witness == Decoded /\ written_rows = 2 /\ ncolumns = 2 /\ NFrames(wire) = 2

(* ------------------------------------------------------------------ *)
(* C6                                                                 *)
(* ------------------------------------------------------------------ *)
\* the slot and the mask byte of row r (from 0) of column c (from 1)
SlotAt(c, r) == ColAt(vals[c], r + 1)
MaskAt(c, r) == ColAt(masks[c], r + 1)

\* C6 as claimed: after a successful decode every slot is either present
\* and different from the null sentinel of its type, or absent and equal to it
C6_MaskExcludesSentinel ==
    Decoded =>
        \A c \in 1..ncolumns : \A r \in 0..(written_rows - 1) :
            \/ MaskAt(c, r) /\ SlotAt(c, r) # Sentinel(TypeOf(c - 1))
            \/ ~MaskAt(c, r) /\ SlotAt(c, r) = Sentinel(TypeOf(c - 1))

\* C6 as amended: after a successful decode a slot whose mask is false holds
\* the null sentinel of its type, a slot whose mask is true holds a value that
\* was written, and in a text column that value is a string, never None
C6_AbsentIsSentinel ==
    Decoded =>
        \A c \in 1..ncolumns : \A r \in 0..(written_rows - 1) :
            /\ ~MaskAt(c, r) => SlotAt(c, r) = Sentinel(TypeOf(c - 1))
            /\ MaskAt(c, r) =>
                   /\ SlotAt(c, r).tag \in {"raw", "str"}
                   /\ TypeOf(c - 1).dtype_name = "object" => SlotAt(c, r).tag = "str"

\* a row with a field that is present and zero beside a datetime that is null
C6_Witness ==
    /\ Decoded
    /\ ids = <<1, 7>>
    /\ \E r \in 0..(written_rows - 1) :
           /\ MaskAt(1, r) /\ SlotAt(1, r) = Sentinel(TypeOf(0))
           /\ ~MaskAt(2, r) /\ SlotAt(2, r) = Raw(NPY_DATETIME_NAT)

(* ------------------------------------------------------------------ *)
(* C7                                                                 *)
(* ------------------------------------------------------------------ *)
\* the field of column c (from 1) of row r (from 0) of the payload
FieldAt(c, r) == FrameAt(wire, r).fields[c]

\* C7: after a successful decode the mask of a slot is false exactly when
\* the length word of its field was -1, and then the slot holds the null
\* sentinel of its type; otherwise the slot holds the value decoded from the
\* value bytes of the field; the cursor has advanced over the length words
\* and over the value bytes of the fields that are present, and no others
C7_MaskFollowsLengthWord ==
    Decoded =>
        \* every decoded row is a frame of the payload, with a field per column
        /\ wire.kind = "valid"
        /\ written_rows = NFrames(wire)
        /\ \A c \in 1..ncolumns : \A r \in 0..(written_rows - 1) :
               /\ MaskAt(c, r) = (FieldAt(c, r).len # -1)
               /\ FieldAt(c, r).len = -1 => SlotAt(c, r) = Sentinel(TypeOf(c - 1))
               /\ FieldAt(c, r).len # -1 =>
                      SlotAt(c, r) = Decodes(TypeOf(c - 1), FieldAt(c, r).data)
        /\ cursor = PayloadLen(wire)

\* a decoded row with a text field that is null and a bool that is present
C7_Witness ==
    /\ Decoded
    /\ ids = <<6, 5>>
    /\ written_rows = 2
    /\ ~MaskAt(1, 1) /\ SlotAt(1, 1) = NoneRef
    /\ MaskAt(2, 1) /\ SlotAt(2, 1) = Raw(<<1>>)

(* ------------------------------------------------------------------ *)
(* C8                                                                 *)
(* ------------------------------------------------------------------ *)
\* C8: allocate_outarrays is reached, and a column buffer exists, only for
\* an input whose header is valid; for any other input the decoder returns
\* an error and no column buffer was ever allocated
C8_HeaderBeforeAllocation ==
    /\ (pc = "rb_allocate" \/ allocated \/ ColumnBlocks # {}) => HeaderValid
    /\ (pc = "rb_return" /\ ~HeaderValid) => (rc = -1 /\ ColumnBlocks = {})

\* an input cut inside the extension length has been refused
C8_Witness ==
    /\ pc = "rb_return"
    /\ rc = -1
    /\ input_len > signature_len + 4
    /\ input_len < signature_len + 8
    /\ ColumnBlocks = {}

(* ------------------------------------------------------------------ *)
(* C9                                                                 *)
(* ------------------------------------------------------------------ *)
\* C9: when warp_prism_to_arrays returns NULL because the decoder reported
\* an error, the three pointer arrays, the result tuple and the buffer view
\* have all been released
C9_NothingOutlivesFailure ==
    (pc = "returned" /\ rc = -1) =>
        /\ \A a \in {ptr_outarrays, ptr_outmasks, ptr_types} : ~heap[a].live
        /\ out # "live"
        /\ view = "released"

(* ------------------------------------------------------------------ *)
(* C10                                                                *)
(* ------------------------------------------------------------------ *)
RECURSIVE LeastDoublings(_, _)
LeastDoublings(rows, k) ==
    IF 4096 * (2 ^ k) >= rows THEN k ELSE LeastDoublings(rows, k + 1)

\* C10: from the start of the decode the capacity is 4096 doubled once per
\* call of grow_outarrays, and the number of calls is the least k with
\* 4096 * 2^k >= the rows started so far; so a decode of R rows has grown
\* the buffers the least k times with 4096 * 2^k >= R
C10_GrowthWhenNeeded ==
    /\ allocated_rows # 0 =>
           /\ allocated_rows = 4096 * (2 ^ grows)
           /\ grows = LeastDoublings(row_count, 0)
    /\ Decoded => grows = LeastDoublings(written_rows, 0)

\* 4097 rows have been decoded with one growth
C10_Witness == Decoded /\ written_rows = 4097 /\ grows = 1 /\ ncolumns = 1

(* ------------------------------------------------------------------ *)
(* C11                                                                *)
(* ------------------------------------------------------------------ *)
\* the input is a strict prefix, of 11 bytes or more, of a complete payload
Truncated == wire.kind = "truncated" /\ input_len >= signature_len

\* C11: the decode of a complete payload cut after 11 or more bytes ends by
\* returning -1 with the out-of-bounds error set and with every column
\* buffer freed; it ends in no other way
C11_TruncationRefused ==
    Truncated =>
        /\ pc # "crashed"
        /\ pc \in {"rb_return", "free_arrays", "returned"} =>
               /\ rc = -1
               /\ pyerr = PyErr.OutOfBounds
               /\ LiveColumnBlocks = {}

(* ------------------------------------------------------------------ *)
(* C12                                                                *)
(* ------------------------------------------------------------------ *)
\* the number of bytes PostgreSQL sends for a value of a fixed width type
WireWidth(t) ==
    CASE t.dtype_name = "int16" -> 2
      [] t.dtype_name = "int32" -> 4
      [] t.dtype_name = "int64" -> 8
      [] t.dtype_name = "float32" -> 4
      [] t.dtype_name = "float64" -> 8
      [] t.dtype_name = "bool" -> 1
      [] t.dtype_name = "datetime64[us]" -> 8
      [] t.dtype_name = "datetime64[D]" -> 4
      [] OTHER -> -1

\* the column loop is at a field whose length word can be read
AtField == pc = "rb_field" /\ ~checked_consume32(cursor, input_len).err
FieldLen == S32(read32(cursor))
FieldFits == FieldLen >= 0 /\ cursor + 4 + FieldLen <= input_len

\* a field of a fixed width column that is not null and has another length
\* than the width of the type goes to the error label, and no byte after
\* its length word has been read
WrongLengthRefused ==
    (/\ AtField
     /\ TypeOf(n).dtype_name # "object"
     /\ FieldLen # -1
     /\ FieldLen # WireWidth(TypeOf(n)))
    => /\ pc' = "rb_error"
       /\ readHi' = cursor + 4
       /\ vals' = vals

\* the field is stored as a string of its bytes, with mask = true
StoredAsText ==
    /\ pc' # "rb_error"
    /\ cursor' = cursor + 4 + FieldLen
    /\ ColAt(masks'[n + 1], row_count) = TRUE
    /\ ColAt(vals'[n + 1], row_count) = StrRef(Bytes(cursor + 4, FieldLen))

SignExtend(b) == (IF b[1] >= 128 THEN <<255, 255, 255, 255>> ELSE Zeros(4)) \o b

\* C13: after a successful decode every date that is present is stored as
\* the signed 64-bit sum of its signed 32-bit value and 10957
C13_DateWidened ==
    Decoded =>
        \A c \in 1..ncolumns : \A r \in 0..(written_rows - 1) :
            (TypeOf(c - 1).dtype_name = "datetime64[D]" /\ FieldAt(c, r).len # -1)
            => SlotAt(c, r) = Raw(AddWrap(SignExtend(FieldAt(c, r).data),
                                          Zeros(4) \o date_offset))

(* ------------------------------------------------------------------ *)
(* C14: every column buffer is freed exactly once                     *)
(* ------------------------------------------------------------------ *)
\* the buffers the columns have at this moment
CurrentBuffers ==
    {outarrays[c] : c \in DOMAIN outarrays} \cup {outmasks[c] : c \in DOMAIN outmasks}

\* the call has ended and nothing holds its result any more
Over == (pc = "returned" /\ result = "NULL") \/ pc = "collected"

\* C14: a value buffer or a mask buffer is freed once, by the cleanup of a
\* failure or by the destructor of its capsule, never by both and never by
\* neither: no block of a column is ever freed twice, and when the decoder
\* has succeeded and the call has ended with nothing holding its result,
\* every buffer of the columns has been freed
C14_FreedExactlyOnce ==
    /\ \A a \in ColumnBlocks : heap[a].frees <= 1
    /\ (Over /\ rc = 0 /\ view = "released")
           => \A a \in CurrentBuffers \cap ColumnBlocks : heap[a].frees = 1

(* ------------------------------------------------------------------ *)
(* C15: bytes after the end-of-data sentinel                          *)
(* ------------------------------------------------------------------ *)
\* the input is a complete payload followed by more bytes, and no call of
\* the allocator fails
HasTail == wire.kind = "valid" /\ input_len > PayloadLen(wire) /\ failAt = 0

\* C15: bytes after the end-of-data sentinel change nothing: the decode of a
\* valid payload followed by more bytes never reads or passes a byte after
\* the sentinel, never takes an error path, and returns success with the rows,
\* the masks and the values of the frames of the payload alone
C15_TailIgnored ==
    HasTail =>
        /\ readHi <= PayloadLen(wire)
        /\ cursor <= PayloadLen(wire)
        /\ pc \notin {"rb_error", "rb_error_free", "free_arrays", "crashed"}
        /\ pc \in {"rb_return", "wrap"} =>
               /\ rc = 0
               /\ cursor = PayloadLen(wire)
               /\ written_rows = NFrames(wire)
               /\ \A c \in 1..ncolumns : \A r \in 0..(written_rows - 1) :
                      IF FieldAt(c, r).len = -1
                      THEN ~MaskAt(c, r) /\ SlotAt(c, r) = Sentinel(TypeOf(c - 1))
                      ELSE /\ MaskAt(c, r)
                           /\ SlotAt(c, r) = Decodes(TypeOf(c - 1), FieldAt(c, r).data)

\* two rows of text and bool were decoded from a payload with a byte after it
C15_Witness ==
    /\ HasTail
    /\ pc = "rb_return"
    /\ ids = <<6, 5>>
    /\ written_rows = 2
    /\ readHi = PayloadLen(wire)
    /\ input_len = PayloadLen(wire) + 1
    /\ SlotAt(1, 1) = StrRef(<<97>>)

(* ------------------------------------------------------------------ *)
(* C16: the OID of a row                                              *)
(* ------------------------------------------------------------------ *)
\* the columns hold what the fields of the frames say, and nothing else of
\* the payload: neither its flags nor the OID words of its rows
FieldsDecoded ==
    /\ written_rows = NFrames(wire)
    /\ \A c \in 1..ncolumns : \A r \in 0..(written_rows - 1) :
           IF FieldAt(c, r).len = -1
           THEN ~MaskAt(c, r) /\ SlotAt(c, r) = Sentinel(TypeOf(c - 1))
           ELSE MaskAt(c, r) /\ SlotAt(c, r) = Decodes(TypeOf(c - 1), FieldAt(c, r).data)

\* a call with a valid payload for column types that exist, during which no
\* call of the allocator fails
ValidCall ==
    /\ wire.kind = "valid"
    /\ failAt = 0
    /\ \A i \in DOMAIN ids : ids[i] \in 0..(max_typeid - 1)

\* the step that reads the OID of a row moves the cursor by 4 bytes, from
\* the end of the field count, and writes nothing
OidStep ==
    (pc = "rb_oid" /\ pc' # "rb_return") =>
        /\ have_oids(flags)
        /\ cursor' = cursor + 4
        /\ pc' = "rb_grow"
        /\ UNCHANGED <<vals, masks, row_count, written_rows>>

\* C16: when the header has bit 16 each row has 4 bytes of OID right after
\* its field count, which the decoder passes without using them: a valid
\* payload, with OIDs of any value or without, decodes to the rows, masks
\* and values of the fields of its frames, so a with-OIDs payload decodes
\* as the payload without OIDs that has the same fields
C16_OidDiscarded ==
    /\ []((ValidCall /\ pc = "rb_return")
              => (rc = 0 /\ cursor = PayloadLen(wire) /\ FieldsDecoded))
    /\ [][OidStep]_vars

\* two rows were decoded whose OID words differ, one the bits of -1
C16_Witness ==
    /\ Decoded
    /\ have_oids(flags)
    /\ written_rows = 2
    /\ FrameAt(wire, 0).oid = <<255, 255, 255, 255>>
    /\ FrameAt(wire, 1).oid = Zeros(4)
    /\ SlotAt(1, 0) = Raw(<<0, 0, 0, 42>>)
    /\ ~MaskAt(1, 1)

(* ------------------------------------------------------------------ *)
(* C17: the field count of a row                                      *)
(* ------------------------------------------------------------------ *)
\* the decoder is at the start of a row and the input has the two bytes of
\* a field count
AtRow == pc = "rb_row" /\ ~checked_consume16(cursor, input_len).err

\* the 16 bits at the cursor as a signed number
WireFieldCount == S16(read16(cursor))

\* the step at the start of a row, by the signed value of the field count
FieldCountStep ==
    AtRow =>
        /\ cursor' = cursor + 2
        /\ UNCHANGED <<vals, masks, row_count>>
        /\ CASE WireFieldCount = -1 ->
                    pc' = "rb_return" /\ rc' = 0 /\ written_rows' = row_count
             [] WireFieldCount # -1 /\ WireFieldCount = ncolumns ->
                    pc' \in {"rb_oid", "rb_grow"} /\ UNCHANGED <<rc, pyerr>>
             [] OTHER ->
                    /\ pc' = "rb_return"
                    /\ rc' = -1
                    /\ pyerr' = PyErr.MismatchedFieldCount
                    /\ readHi' = Max(readHi, cursor + 2)

\* C17: the 16 bits at the start of a row are a signed field count: -1 ends
\* the decode with success and the rows decoded so far, the number of
\* columns lets the row be decoded, and any other value ends the decode with
\* the mismatched-field-count error before a byte of a field of the row is
\* read or a slot is written
C17_FieldCountSigned == [][FieldCountStep]_vars

\* a row announced -2 fields after one row was decoded
C17_Witness ==
    /\ pc = "rb_return"
    /\ rc = -1
    /\ pyerr = PyErr.MismatchedFieldCount
    /\ field_count = -2
    /\ row_count = 1
    /\ readHi = cursor

(* ------------------------------------------------------------------ *)
(* C18: a failure of allocate_outarrays                               *)
(* ------------------------------------------------------------------ *)
\* allocate_outarrays has failed and the decoder has returned its error
AllocationFailed ==
    pc = "rb_return" /\ rc = -1 /\ ~allocated /\ failAt # 0 /\ calls = failAt

\* C18: when allocate_outarrays fails at a column, no buffer it allocated
\* is live at its return: the buffers of the columns before are freed, and
\* the value buffer of the column whose mask could not be allocated
C18_AllocationAllOrNothing == AllocationFailed => LiveColumnBlocks = {}

(* ------------------------------------------------------------------ *)
(* C19: a failure of grow_outarrays                                   *)
(* ------------------------------------------------------------------ *)
\* grow_outarrays has failed and the decoder has returned its error
GrowFailed ==
    pc = "rb_return" /\ rc = -1 /\ allocated /\ grows > 0 /\ calls = failAt
    /\ pyerr = PyErr.NotSet

\* C19: when a reallocation of grow_outarrays fails, at the return of the
\* decoder every buffer the columns have (the new one where the
\* reallocation succeeded, the old one otherwise) has been freed once, a
\* block a reallocation gave up has not been freed, no free or release went
\* to memory that was not live, every string and every reference to None of
\* the rows written has been released once, and the decoder reports an error
C19_GrowFailureFreesOnce ==
    /\ GrowFailed =>
           /\ ~ub
           /\ \A a \in CurrentBuffers : a \in ColumnBlocks /\ heap[a].frees = 1
           /\ \A a \in ColumnBlocks \ CurrentBuffers :
                  heap[a].frees = 0 /\ ~heap[a].live
           /\ strLive = 0
           /\ noneRefs = 0
    /\ (pc = "rb_return" /\ allocated /\ grows > 0 /\ failAt # 0 /\ calls = failAt
        /\ failAt <= CallsBeforeGrowth + 4 /\ row_count > starting_column_buffer_length)
           => rc = -1

\* the reallocation of the values of the second column failed after the
\* two buffers of the text column had moved
C19_Witness ==
    /\ GrowFailed
    /\ ids = <<6, 5>>
    /\ failAt = CallsBeforeGrowth + 3
    /\ row_count = starting_column_buffer_length + 1
    /\ Cardinality(ColumnBlocks) = 6
    /\ Cardinality(CurrentBuffers) = 4

(* ------------------------------------------------------------------ *)
(* C20: the rows and the capacity                                     *)
(* ------------------------------------------------------------------ *)
\* the decoder is between two rows: at the field count of a row, at its
\* OID, or at the growth test
BetweenRows == pc \in {"rb_row", "rb_oid", "rb_grow"}

\* the blocks of column c (from 1) are live and have room for capacity rows
HasRoom(c, capacity) ==
    /\ outarrays[c] \in DOMAIN heap /\ outmasks[c] \in DOMAIN heap
    /\ heap[outarrays[c]].live /\ heap[outmasks[c]].live
    /\ heap[outarrays[c]].size = capacity * TypeOf(c - 1).size
    /\ heap[outmasks[c]].size = capacity

\* C20: at the start of every turn of the row loop the rows written are at
\* most the capacity, and when a field is about to be decoded its row index
\* row_count - 1 is below the capacity, the capacity is the one the live
\* blocks of the column were allocated with, and no column holds a slot or
\* a mask byte at or past the capacity
C20_RowsWithinCapacity ==
    /\ BetweenRows => row_count <= allocated_rows
    /\ pc = "rb_field" =>
           /\ row_count >= 1
           /\ row_count - 1 < allocated_rows
           /\ HasRoom(n + 1, allocated_rows)
    /\ (BetweenRows \/ pc = "rb_field") =>
           \A c \in 1..ncolumns :
               ColLen(vals[c]) <= allocated_rows /\ ColLen(masks[c]) <= allocated_rows

\* the first row after a growth is about to be decoded
C20_Witness ==
    /\ pc = "rb_field"
    /\ n = 0
    /\ grows = 1
    /\ row_count = starting_column_buffer_length + 1
    /\ allocated_rows = 2 * starting_column_buffer_length
    /\ ColLen(vals[1]) = starting_column_buffer_length
    /\ HasRoom(1, 2 * starting_column_buffer_length)

(* ------------------------------------------------------------------ *)
(* C21: the cursor and the length of the input                        *)
(* ------------------------------------------------------------------ *)
\* control is in warp_prism_read_binary_results, its return included
InDecoder ==
    pc \in {"rb_signature", "rb_flags", "rb_ext", "rb_ext_skip", "rb_allocate",
            "rb_row", "rb_oid", "rb_grow", "rb_field", "rb_error",
            "rb_error_free", "rb_return"}

\* C21: in every state of the decoder the cursor is at most the length of
\* the input, also between the read of the length of the header extension
\* and the refusal of a length that is not zero
C21_CursorWithinInput == InDecoder => cursor <= input_len

(* ------------------------------------------------------------------ *)
(* C22: the field count of a row of many columns                      *)
(* ------------------------------------------------------------------ *)
\* the decoder is at a row whose field count has the 16 bits of ncolumns
AtFullRow == AtRow /\ read16(cursor) = Enc16(ncolumns)

\* the step at the field count that lets the row be decoded
RowAccepted == ReadFieldCount /\ pc' \in {"rb_oid", "rb_grow"}

\* C22: for every number of columns the entry point accepts, a row whose
\* 16-bit field count encodes that number passes the test of the field
\* count and goes on to be decoded
C22_ColumnCountPasses == AtFullRow => ENABLED RowAccepted

\* C22 for the numbers of columns an int16_t can hold
C22_SmallColumnCountPasses ==
    (AtFullRow /\ ncolumns <= INT16_MAX) => ENABLED RowAccepted

(* ------------------------------------------------------------------ *)
(* C23: a length below -1                                             *)
(* ------------------------------------------------------------------ *)
\* the step at a field whose length word is below -1: the mask byte says
\* present, assert_can_consume refuses the length, no slot is written and
\* no later byte is read
NegativeLengthStep ==
    (AtField /\ FieldLen < -1) =>
        /\ pc' = "rb_error"
        /\ pyerr' \in {PyErr.CursorOverflow, PyErr.OutOfBounds}
        /\ pyerr' = PyErr.CursorOverflow <=> cursor + 4 + FieldLen >= 0
        /\ cursor' = cursor + 4
        /\ readHi' = Max(readHi, cursor + 4)
        /\ vals' = vals
        /\ ColAt(masks'[n + 1], row_count) = TRUE

\* the decode of a complete payload has left the column loop at a length
\* word below -1
NegativeLengthSeen ==
    /\ wire.kind = "malformed"
    /\ errcol # -1
    /\ pyerr \in {PyErr.CursorOverflow, PyErr.OutOfBounds}
    /\ cursor >= signature_len + 8 + 2 + 4
    /\ readHi = cursor
    /\ S32(read32(cursor - 4)) < -1

\* the decode has failed and every buffer of the columns is freed
FailedAndFreed ==
    /\ pc # "crashed"
    /\ pc \in {"rb_return", "free_arrays", "returned"} =>
           rc = -1 /\ LiveColumnBlocks = {}

\* C23: a field whose length is below -1 is neither taken for a null nor
\* given to a parser: assert_can_consume reports an overflow or an out of
\* bounds access for it, and the decode fails with the buffers freed
C23_NegativeLengthRefused ==
    /\ [][NegativeLengthStep]_vars
    /\ [](NegativeLengthSeen => FailedAndFreed)

\* the part of C23 about the refusal alone
C23_RefusalAlone == [][NegativeLengthStep]_vars

(* ------------------------------------------------------------------ *)
(* C24: the decoder terminates                                        *)
(* ------------------------------------------------------------------ *)
\* the calls whose payload is written out byte by byte, for no column, one
\* column, and two columns of different sizes
LiveInit == Init /\ input.reps = 0 /\ ids \in {<<>>, <<1>>, <<0, 6>>, <<6, 1>>}

\* every step of the call that can be taken is taken in the end: the code
\* runs on one thread and never waits
LiveSpec == LiveInit /\ [][Next]_vars /\ WF_vars(Next)

\* at the start of a turn of the row loop every turn before has moved the
\* cursor by two bytes or more, so that the turns before are at most
\* (input_len - 19) / 2
RowLoopBound ==
    pc = "rb_row" =>
        /\ cursor >= signature_len + 8 + 2 * row_count
        /\ row_count <= (input_len - (signature_len + 8)) \div 2

\* the decoder is entered with column types that exist
Entered == pc = "rb_signature" /\ \A i \in DOMAIN ids : ids[i] \in 0..(max_typeid - 1)

\* C24: the decoder terminates on every input and every number of columns:
\* every turn of the row loop returns or moves the cursor by two bytes or
\* more, the loop takes at most (input_len - 19) / 2 + 1 turns, and the
\* decoder, once entered, returns success or an error
C24_DecoderReturns ==
    /\ []RowLoopBound
    /\ Entered ~> (pc = "rb_return")

\* C24 with the end of the process counted as termination
C24_DecoderEnds ==
    /\ []RowLoopBound
    /\ Entered ~> (pc \in {"rb_return", "crashed"})
====
